---- MODULE Spec2Model ----
(***************************************************************************)
(* Ticket reconciliation of cyhy-core (cyhy/db/ticket_manager.py):        *)
(* VulnTicketManager, IPPortTicketManager and IPTicketManager working on   *)
(* one shared ticket store.                                                *)
(*                                                                         *)
(* Python values that may be None are kept as options: None is the empty   *)
(* tuple and a present value x is the one-element tuple <<x>>.  Times are  *)
(* whole days.  CVSS scores are kept in tenths (7.5 is 75).                *)
(***************************************************************************)
EXTENDS Integers, Sequences, FiniteSets, TLC

\* ------------------------------------------------------------------ bounds
\* the last day of the model's clock
MaxTime == 1
\* how many open_ticket and close_tickets calls a behaviour makes
MaxCalls == 2
\* the reopen_days every manager is constructed with
TestReopenDays == 1

\* ------------------------------------------------------- program constants
MAX_PORTS_COUNT == 65535

UNKNOWN_OWNER == "UNKNOWN"

OPENED == "OPENED"
VERIFIED == "VERIFIED"
REOPENED == "REOPENED"
CHANGED == "CHANGED"
UNVERIFIED == "UNVERIFIED"
CLOSED == "CLOSED"

\* ------------------------------------------------------------------ options
None == <<>>

Some(x) == <<x>>

Val(o) == o[1]

\* dict.get(k): the stored value, None when the key is absent
Get(d, k) == IF k \in DOMAIN d THEN d[k] ELSE None

\* Python 2 ordering of an optional integer against an integer: None sorts
\* below every number
PyLt(o, n) == IF o = None THEN TRUE ELSE Val(o) < n

PyGe(o, n) == IF o = None THEN FALSE ELSE Val(o) >= n

\* the slot of a key in the hash table of the Python 2 set of line 64: the
\* hash of the string modulo the size of the table, which is 8 for a set of
\* the keys a, b, c and 32 for the set of the eight keys of a details mapping;
\* there "severity" falls on the slot of "name" (5), which is taken first, and
\* the probe sequence moves it to slot 31
hash_slot ==
  [a |-> 0, c |-> 2, b |-> 3,
   vpr_score |-> 2, name |-> 5, cvss_base_score |-> 7, cvss_version |-> 12,
   kev |-> 25, score_source |-> 26, cve |-> 27, severity |-> 31]

\* the order in which "for k in all_keys" visits the keys: by slot
RECURSIVE SetToSeq(_)
SetToSeq(S) ==
  IF S = {} THEN <<>>
  ELSE LET x == CHOOSE y \in S : \A z \in S : hash_slot[y] <= hash_slot[z]
       IN <<x>> \o SetToSeq(S \ {x})

\* --------------------------------------------------------- __calculate_delta
\* a faulty key set, which leaves out the keys of d2
all_keys_d1(d1, d2) == DOMAIN d1

\* all_keys = set(d1.keys() + d2.keys())
all_keys(d1, d2) == DOMAIN d1 \cup DOMAIN d2

\* one pass of the loop body for key k
delta_entry(d1, d2, k) ==
  LET v1 == Get(d1, k)
      v2 == Get(d2, k)
  IN IF v1 # v2 THEN <<[key |-> k, from |-> v1, to |-> v2]>> ELSE <<>>

RECURSIVE delta_loop(_, _, _)
delta_loop(keys, d1, d2) ==
  IF keys = <<>> THEN <<>>
  ELSE delta_entry(d1, d2, Head(keys)) \o delta_loop(Tail(keys), d1, d2)

calculate_delta(d1, d2) == delta_loop(SetToSeq(all_keys(d1, d2)), d1, d2)

\* ------------------------------------------------------------ the database
\* CVEDoc collection: the NVD record of a CVE id
CVEDoc == [c \in {"CVE-1"} |->
            [cvss_score |-> 98, cvss_version |-> "3", severity |-> 4]]

\* KEVDoc collection: the ids listed as known exploited
KEVDoc == {"CVE-2"}

\* HostDoc.get_by_ip: the host record of an ip (None when there is none)
HostDoc(ip) == IF ip = 1 THEN Some([loc |-> "L1"]) ELSE None

\* an entry of a ticket's events list; a missing "delta" is the empty list,
\* a missing "manual" is FALSE
Event(action, reason, reference, time, delta, manual) ==
  [action |-> action, reason |-> reason, reference |-> reference,
   time |-> time, delta |-> delta, manual |-> manual]

\* TicketDoc(): a fresh ticket document with its default values
TicketDoc ==
  [ip |-> 0, port |-> 0, protocol |-> "", source |-> "", source_id |-> 0,
   owner |-> "", open |-> TRUE, false_positive |-> FALSE,
   false_positive_dates |-> None, details |-> << >>, loc |-> None,
   time_opened |-> None, time_closed |-> None, events |-> << >>]

\* vuln.get(k) on a scan document
VGet(doc, k) == IF k \in DOMAIN doc THEN Some(doc[k]) ELSE None

\* -------------------------------------------------- __generate_ticket_details
\* the exception of vuln["cvss_base_score"] on a document without that key
KeyError == [raised |-> "KeyError"]

\* lines 97-106; the default of vuln.get("cvss3_base_score", ...) (line 99) is
\* evaluated whether or not the document has "cvss3_base_score"
initial_details(vuln) ==
  IF "cvss_base_score" \notin DOMAIN vuln THEN KeyError ELSE
  [cve |-> VGet(vuln, "cve"),
   cvss_base_score |-> IF "cvss3_base_score" \in DOMAIN vuln
                       THEN Some(vuln.cvss3_base_score)
                       ELSE Some(vuln.cvss_base_score),
   cvss_version |-> IF "cvss3_base_score" \in DOMAIN vuln
                    THEN Some("3") ELSE Some("2"),
   kev |-> Some(FALSE),
   name |-> Some(vuln.plugin_name),
   score_source |-> Some(vuln.source),
   severity |-> Some(vuln.severity),
   vpr_score |-> VGet(vuln, "vpr_score")]

\* lines 108-119
nvd_details(vuln, d) ==
  IF "cve" \in DOMAIN vuln
  THEN LET d1 == IF vuln.cve \in DOMAIN CVEDoc
                 THEN [d EXCEPT
                         !.cvss_base_score = Some(CVEDoc[vuln.cve].cvss_score),
                         !.cvss_version = Some(CVEDoc[vuln.cve].cvss_version),
                         !.score_source = Some("nvd"),
                         !.severity = Some(CVEDoc[vuln.cve].severity)]
                 ELSE d
       IN IF vuln.cve \in KEVDoc THEN [d1 EXCEPT !.kev = Some(TRUE)] ELSE d1
  ELSE d

\* a faulty mapping, which applies the thresholds of version 2 to version 3
cvss_severity_v2_only(version, cvss, severity) ==
  IF version \in {"2", "3"}
  THEN IF cvss = 100 THEN 4
       ELSE IF cvss >= 70 THEN 3
       ELSE IF cvss >= 40 THEN 2
       ELSE 1
  ELSE severity

\* lines 142-159: the severity of a CVSS score (in tenths) of a version
cvss_severity(version, cvss, severity) ==
  IF version = "2"
  THEN IF cvss = 100 THEN 4
       ELSE IF cvss >= 70 THEN 3
       ELSE IF cvss >= 40 THEN 2
       ELSE 1
  ELSE IF version = "3"
  THEN IF cvss >= 90 THEN 4
       ELSE IF cvss >= 70 THEN 3
       ELSE IF cvss >= 40 THEN 2
       ELSE 1
  ELSE severity

\* lines 126-159
severity_details(d) ==
  IF d.score_source # Some("nvd")
  THEN [d EXCEPT !.severity = Some(cvss_severity(Val(d.cvss_version),
                                                 Val(d.cvss_base_score),
                                                 Val(d.severity)))]
  ELSE d

new_details(vuln) ==
  IF initial_details(vuln) = KeyError THEN KeyError
  ELSE severity_details(nvd_details(vuln, initial_details(vuln)))

\* a faulty __generate_ticket_details, which logs CHANGED for an empty delta too
generate_ticket_details_always(vuln, ticket, check_for_changes, manual_scan) ==
  LET nd == new_details(vuln)
      delta == IF check_for_changes
               THEN calculate_delta(ticket.details, nd) ELSE << >>
      events == IF check_for_changes
                THEN Append(ticket.events,
                            Event(CHANGED, "details changed", Some(vuln.id),
                                  vuln.time, delta, manual_scan))
                ELSE ticket.events
  IN [ticket |-> [ticket EXCEPT !.events = events, !.details = nd],
      delta |-> delta]

\* lines 161-177: the ticket with its new details (and CHANGED event), and
\* the delta
generate_ticket_details(vuln, ticket, check_for_changes, manual_scan) ==
  LET nd == new_details(vuln)
      delta == IF check_for_changes
               THEN calculate_delta(ticket.details, nd) ELSE << >>
      events == IF delta # << >>
                THEN Append(ticket.events,
                            Event(CHANGED, "details changed", Some(vuln.id),
                                  vuln.time, delta, manual_scan))
                ELSE ticket.events
  IN IF nd = KeyError THEN KeyError
     ELSE [ticket |-> [ticket EXCEPT !.events = events, !.details = nd],
           delta |-> delta]

\* ------------------------------------------ __check_false_positive_expiration
fp_delta == <<[key |-> "false_positive", from |-> Some(TRUE), to |-> Some(FALSE)]>>

\* ticket.false_positive_dates: (effective date, expiration date)
fp_expiration_date(ticket) == ticket.false_positive_dates[2]

\* a faulty expiration check, which dates the event at the expiration date
check_false_positive_expiration_backdated(ticket, time, manual_scan) ==
  IF ticket.false_positive = TRUE /\ fp_expiration_date(ticket) < time
  THEN [ticket EXCEPT
          !.false_positive = FALSE,
          !.events = Append(@, Event(CHANGED, "False positive expired", None,
                                     fp_expiration_date(ticket), fp_delta,
                                     manual_scan))]
  ELSE ticket

\* a faulty expiration check, which flips the flag without logging it
check_false_positive_expiration_silent(ticket, time, manual_scan) ==
  IF ticket.false_positive = TRUE /\ fp_expiration_date(ticket) < time
  THEN [ticket EXCEPT !.false_positive = FALSE]
  ELSE ticket

check_false_positive_expiration(ticket, time, manual_scan) ==
  IF ticket.false_positive = TRUE /\ fp_expiration_date(ticket) < time
  THEN [ticket EXCEPT
          !.false_positive = FALSE,
          !.events = Append(@, Event(CHANGED, "False positive expired", None,
                                     time, fp_delta, manual_scan))]
  ELSE ticket

\* ------------------------------------------------------ notification policy
RECURSIVE delta_notifies_any(_)
\* a faulty loop over the delta, which takes any severity that ends at 3 or
\* above for a crossing
delta_notifies_any(delta) ==
  IF delta = << >> THEN FALSE
  ELSE LET d == Head(delta) IN
       IF d.key = "severity" /\ PyGe(d.to, 3) THEN TRUE
       ELSE IF d.key = "kev" /\ d.from = Some(FALSE) /\ d.to = Some(TRUE) THEN TRUE
       ELSE delta_notifies_any(Tail(delta))

RECURSIVE delta_notifies(_)
\* lines 229-237 and 274-282: whether the loop over the delta reaches a
\* __create_notification call before it ends
delta_notifies(delta) ==
  IF delta = << >> THEN FALSE
  ELSE LET d == Head(delta) IN
       IF d.key = "severity" /\ PyLt(d.from, 3) /\ PyGe(d.to, 3) THEN TRUE
       ELSE IF d.key = "kev" /\ d.from = Some(FALSE) /\ d.to = Some(TRUE) THEN TRUE
       ELSE delta_notifies(Tail(delta))

\* __create_notification: the NotificationDoc that is saved
NotificationDoc(tid, ticket) ==
  [ticket_id |-> tid, ticket_owner |-> ticket.owner, generated_for |-> << >>]

\* =================================================================== state
VARIABLES
  tickets,        \* the TicketDoc collection; a ticket's _id is its index
  notifications,  \* the NotificationDoc collection, in order of creation
  vulnscans,      \* the VulnScanDoc collection; a record's _id is its index
  now,            \* util.utcnow(), in days
  mgr,            \* the ticket manager of the current run and its fields
  touched,        \* the _ids open_ticket resolved to in the current run
  calls,          \* how many open_ticket and close_tickets calls were made
  last            \* the call that led to this state, and the state before it

vars == <<tickets, notifications, vulnscans, now, mgr, touched, calls, last>>

\* --------------------------------------------------------------- the inputs
IPs == {1, 2}

Ports == {0, 80}

Protocols == {"tcp", "udp"}

\* the ip sets a run is configured with
ScopeIPs == {{1}}

\* the ips a scan finds up, or with an open port
UpIPs == {1}

\* the owner of the scan documents of an ip: ip 2 belongs to nobody
OwnerOf(ip) == IF ip = 1 THEN "ORG" ELSE UNKNOWN_OWNER

\* the _id of the scan document made on a day
ScanId(time) == 100 + time

\* the times of the documents a run hands in on day t: made that day, or
\* left over from day 0
DocTimes(t) == {0, t}

\* what a vulnerability scan reports besides the key of the finding
PlainPayload == [severity |-> 1, cvss_base_score |-> 50]

VulnPayloads ==
  { PlainPayload,
    [severity |-> 1, cvss_base_score |-> 75],
    [severity |-> 1, cvss_base_score |-> 75, cvss3_base_score |-> 95],
    [severity |-> 1, cvss_base_score |-> 75, cve |-> "CVE-2"],
    [severity |-> 1, cvss_base_score |-> 50, cve |-> "CVE-1"] }

\* a VulnScanDoc
VulnScanDoc(p, ip, port, time) ==
  p @@ [id |-> ScanId(time), ip |-> ip, port |-> port, protocol |-> "tcp",
        plugin_id |-> 10, source |-> "nessus", owner |-> OwnerOf(ip),
        time |-> time, plugin_name |-> "plugin"]

\* the VulnScanDocs a run can pass to VulnTicketManager.open_ticket on day t
VulnScanDocs(t) ==
  { VulnScanDoc(PlainPayload, k[1], k[2], time) :
      k \in {<<1, 80>>, <<1, 0>>, <<2, 80>>}, time \in DocTimes(t) }

\* a PortScanDoc
PortScanDoc(ip, protocol, time) ==
  [id |-> ScanId(time), ip |-> ip, port |-> 80, protocol |-> protocol,
   source_id |-> 0, source |-> "nmap", owner |-> OwnerOf(ip), time |-> time,
   name |-> "Potentially Risky Service Detected", service |-> "http"]

\* the PortScanDocs a run can pass to IPPortTicketManager.open_ticket on day t
PortScanDocs(t) ==
  { PortScanDoc(k[1], k[2], time) :
      k \in {<<1, "tcp">>, <<1, "udp">>, <<2, "tcp">>}, time \in DocTimes(t) }

\* the closing_time arguments of a close_tickets call on day t
ClosingTimes(t) == {None, Some(0)}

\* the bound of the model on the calls that change tickets
InBounds == calls < MaxCalls

\* --------------------------------------------------------- the ticket store
\* the identity key a vulnerability scan document is looked up by
VulnKey(vuln) ==
  [ip |-> vuln.ip, port |-> vuln.port, protocol |-> vuln.protocol,
   source_id |-> vuln.plugin_id, source |-> vuln.source]

\* the identity key a port scan document is looked up by
PortKey(portscan) ==
  [ip |-> portscan.ip, port |-> portscan.port, protocol |-> portscan.protocol,
   source_id |-> portscan.source_id, source |-> portscan.source]

KeyOf(t) ==
  [ip |-> t.ip, port |-> t.port, protocol |-> t.protocol,
   source_id |-> t.source_id, source |-> t.source]

\* a faulty lookup of the open ticket, which matches the closed ones instead
prev_open_tickets_closed(store, key) ==
  {i \in DOMAIN store : KeyOf(store[i]) = key /\ store[i].open = FALSE}

\* TicketDoc.find_one({key..., "open": True}): the _ids that match
prev_open_tickets(store, key) ==
  {i \in DOMAIN store : KeyOf(store[i]) = key /\ store[i].open = TRUE}

\* a faulty lookup of the ticket to reopen, with $gte in place of $gt
reopen_tickets_gte(store, key, cutoff_date) ==
  {i \in DOMAIN store :
     /\ KeyOf(store[i]) = key
     /\ store[i].open = FALSE
     /\ store[i].time_closed # None
     /\ Val(store[i].time_closed) >= cutoff_date}

\* TicketDoc.find_one({key..., "open": False, "time_closed": {"$gt": cutoff}})
reopen_tickets(store, key, cutoff_date) ==
  {i \in DOMAIN store :
     /\ KeyOf(store[i]) = key
     /\ store[i].open = FALSE
     /\ store[i].time_closed # None
     /\ Val(store[i].time_closed) > cutoff_date}

\* ticket.save(): the store with document i written (inserted when new)
save(store, i, t) ==
  IF i \in DOMAIN store THEN [store EXCEPT ![i] = t] ELSE Append(store, t)

NoCall == [op |-> "none"]

\* the record of a call: its name, its argument, the ticket open_ticket
\* resolved to and on which path, the closing time it used, the state it
\* started from, and the call made right before it (if the step before was one)
Call(op, arg, tid, branch, ct) ==
  [op |-> op, arg |-> arg, tid |-> tid, branch |-> branch, ct |-> ct,
   pre |-> tickets, pre_notes |-> Len(notifications), pre_mgr |-> mgr,
   pre_touched |-> touched, pre_now |-> now,
   prev |-> IF last.op = "none" THEN NoCall
            ELSE [op |-> last.op, arg |-> last.arg, tid |-> last.tid,
                  branch |-> last.branch, ct |-> last.ct]]

Init ==
  /\ tickets = << >>
  /\ notifications = << >>
  /\ now = 0
  /\ mgr = [kind |-> "none"]
  /\ touched = {}
  /\ vulnscans = << >>
  /\ calls = 0
  /\ last = NoCall

\* ------------------------------------------------------- VulnTicketManager
\* __init__
VulnTicketManager(source, reopen_days, manual_scan) ==
  /\ InBounds
  /\ mgr' = [kind |-> "vuln", closing_time |-> None, ips |-> {},
             manual_scan |-> manual_scan, ports |-> {},
             reopen_days |-> reopen_days, seen_ticket_ids |-> {},
             source |-> source, source_ids |-> {}]
  /\ touched' = {}
  /\ last' = NoCall
  /\ UNCHANGED <<tickets, notifications, now, calls, vulnscans>>

\* the ips setter
Vuln_set_ips(ips) ==
  /\ mgr.kind = "vuln"
  /\ InBounds
  /\ mgr' = [mgr EXCEPT !.ips = ips]
  /\ last' = NoCall
  /\ UNCHANGED <<tickets, notifications, now, touched, calls, vulnscans>>

\* the ports setter: port 0 is always added
Vuln_set_ports(ports) ==
  /\ mgr.kind = "vuln"
  /\ InBounds
  /\ mgr' = [mgr EXCEPT !.ports = ports \cup {0}]
  /\ last' = NoCall
  /\ UNCHANGED <<tickets, notifications, now, touched, calls, vulnscans>>

\* the source_ids setter
Vuln_set_source_ids(source_ids) ==
  /\ mgr.kind = "vuln"
  /\ InBounds
  /\ mgr' = [mgr EXCEPT !.source_ids = source_ids]
  /\ last' = NoCall
  /\ UNCHANGED <<tickets, notifications, now, touched, calls, vulnscans>>

\* a faulty update, which keeps the time of the run's first document
next_closing_time_first(closing_time, t) ==
  IF closing_time = None THEN Some(t) ELSE closing_time

\* lines 193-194: the run's closing time after a document of time t
next_closing_time(closing_time, t) ==
  IF closing_time = None \/ Val(closing_time) < t THEN Some(t) ELSE closing_time

\* a faulty verification, which looks at the false positive before the details
Vuln_verify_expiry_first(ticket, vuln, reason, manual_scan) ==
  LET t0 == check_false_positive_expiration(ticket, vuln.time, manual_scan)
      g == generate_ticket_details(vuln, t0, TRUE, manual_scan)
      t2 == [g.ticket EXCEPT !.events =
               Append(@, Event(VERIFIED, reason, Some(vuln.id), vuln.time,
                               << >>, manual_scan))]
  IN [ticket |-> t2,
      notify |-> t2.false_positive # TRUE /\ delta_notifies(g.delta)]

\* a faulty verification, which saves the ticket without the VERIFIED event
Vuln_verify_unlogged(ticket, vuln, reason, manual_scan) ==
  LET g == generate_ticket_details(vuln, ticket, TRUE, manual_scan)
      t1 == check_false_positive_expiration(g.ticket, vuln.time, manual_scan)
  IN [ticket |-> t1,
      notify |-> t1.false_positive # TRUE /\ delta_notifies(g.delta)]

\* lines 207-238: the open ticket verified, and whether a notification is made
Vuln_verify(ticket, vuln, reason, manual_scan) ==
  LET g == generate_ticket_details(vuln, ticket, TRUE, manual_scan)
      t1 == check_false_positive_expiration(g.ticket, vuln.time, manual_scan)
      t2 == [t1 EXCEPT !.events =
               Append(@, Event(VERIFIED, reason, Some(vuln.id), vuln.time,
                               << >>, manual_scan))]
  IN [ticket |-> t2,
      notify |-> t2.false_positive # TRUE /\ delta_notifies(g.delta)]

\* lines 255-283: the closed ticket reopened
Vuln_reopen(ticket, vuln, reason, manual_scan) ==
  LET g == generate_ticket_details(vuln, ticket, TRUE, manual_scan)
      t1 == [g.ticket EXCEPT
               !.events = Append(@, Event(REOPENED, reason, Some(vuln.id),
                                          vuln.time, << >>, manual_scan)),
               !.open = TRUE,
               !.time_closed = None]
  IN [ticket |-> t1, notify |-> delta_notifies(g.delta)]

\* a faulty handling of the unknown owner, which logs CLOSED and leaves the
\* ticket open
close_unowned_open(ticket, time, closing_time, manual_scan) ==
  IF ticket.owner = UNKNOWN_OWNER
  THEN [ticket EXCEPT
          !.events = Append(@, Event(CLOSED, "No associated owner", None,
                                     time, << >>, manual_scan))]
  ELSE ticket

\* lines 310-323: a new ticket without an owner is closed at once
close_unowned(ticket, time, closing_time, manual_scan) ==
  IF ticket.owner = UNKNOWN_OWNER
  THEN [ticket EXCEPT
          !.events = Append(@, Event(CLOSED, "No associated owner", None,
                                     time, << >>, manual_scan)),
          !.open = FALSE,
          !.time_closed = closing_time]
  ELSE ticket

\* a faulty new ticket, which notifies of criticals only
Vuln_new_critical_only(vuln, reason, manual_scan, closing_time) ==
  LET t0 == [TicketDoc EXCEPT
               !.ip = vuln.ip, !.owner = vuln.owner, !.port = vuln.port,
               !.protocol = vuln.protocol, !.source_id = vuln.plugin_id,
               !.source = vuln.source, !.time_opened = Some(vuln.time)]
      t1 == generate_ticket_details(vuln, t0, FALSE, manual_scan).ticket
      host == HostDoc(vuln.ip)
      t2 == IF host # None THEN [t1 EXCEPT !.loc = Some(Val(host).loc)] ELSE t1
      t3 == [t2 EXCEPT !.events =
               Append(@, Event(OPENED, reason, Some(vuln.id), vuln.time,
                               << >>, manual_scan))]
      t4 == close_unowned(t3, vuln.time, closing_time, manual_scan)
  IN [ticket |-> t4,
      notify |-> Val(t4.details.severity) > 3 \/ Val(t4.details.kev)]

\* lines 286-330: the new ticket
Vuln_new(vuln, reason, manual_scan, closing_time) ==
  LET t0 == [TicketDoc EXCEPT
               !.ip = vuln.ip, !.owner = vuln.owner, !.port = vuln.port,
               !.protocol = vuln.protocol, !.source_id = vuln.plugin_id,
               !.source = vuln.source, !.time_opened = Some(vuln.time)]
      t1 == generate_ticket_details(vuln, t0, FALSE, manual_scan).ticket
      host == HostDoc(vuln.ip)
      t2 == IF host # None THEN [t1 EXCEPT !.loc = Some(Val(host).loc)] ELSE t1
      t3 == [t2 EXCEPT !.events =
               Append(@, Event(OPENED, reason, Some(vuln.id), vuln.time,
                               << >>, manual_scan))]
      t4 == close_unowned(t3, vuln.time, closing_time, manual_scan)
  IN [ticket |-> t4,
      notify |-> Val(t4.details.severity) > 2 \/ Val(t4.details.kev)]

\* a faulty __mark_seen, which forgets the ticket
mark_seen_noop(seen_ticket_ids, tid) == seen_ticket_ids

\* __mark_seen
mark_seen(seen_ticket_ids, tid) == seen_ticket_ids \cup {tid}

\* the effect of open_ticket once the ticket tid and its new content are known
Vuln_commit(vuln, tid, branch, r, closing_time) ==
  LET store == save(tickets, tid, r.ticket)
      notes == IF r.notify
               THEN Append(notifications, NotificationDoc(tid, r.ticket))
               ELSE notifications
  IN /\ InBounds
     /\ tickets' = store
     /\ notifications' = notes
     /\ mgr' = [mgr EXCEPT
                  !.closing_time = closing_time,
                  !.seen_ticket_ids = mark_seen(@, tid)]
     /\ touched' = touched \cup {tid}
     /\ last' = Call("vuln_open_ticket", vuln, tid, branch, closing_time)
     /\ calls' = calls + 1
     /\ UNCHANGED <<now, vulnscans>>

\* open_ticket on a document of which __generate_ticket_details raises: the
\* closing time is set (lines 193-194) and nothing is saved
Vuln_raise(vuln, closing_time) ==
  /\ InBounds
  /\ mgr' = [mgr EXCEPT !.closing_time = closing_time]
  /\ last' = Call("vuln_open_ticket", vuln, 0, "KeyError", closing_time)
  /\ calls' = calls + 1
  /\ UNCHANGED <<tickets, notifications, now, touched, vulnscans>>

\* open_ticket(vuln, reason)
Vuln_open_ticket(vuln, reason) ==
  /\ mgr.kind = "vuln"
  /\ LET closing_time == next_closing_time(mgr.closing_time, vuln.time)
         prev == prev_open_tickets(tickets, VulnKey(vuln))
         cutoff_date == now - mgr.reopen_days
         reopen == reopen_tickets(tickets, VulnKey(vuln), cutoff_date)
     IN IF new_details(vuln) = KeyError
        THEN Vuln_raise(vuln, closing_time)
        ELSE IF prev # {}
        THEN \E i \in prev :
               Vuln_commit(vuln, i, "verify",
                 Vuln_verify(tickets[i], vuln, reason, mgr.manual_scan),
                 closing_time)
        ELSE IF reopen # {}
        THEN \E i \in reopen :
               Vuln_commit(vuln, i, "reopen",
                 Vuln_reopen(tickets[i], vuln, reason, mgr.manual_scan),
                 closing_time)
        ELSE Vuln_commit(vuln, Len(tickets) + 1, "new",
               Vuln_new(vuln, reason, mgr.manual_scan, closing_time),
               closing_time)

\* close_tickets_pl: the open tickets covered by the scan that were not
\* touched (the query of lines 340-345)
close_tickets_pl(store, ips, ports, source_ids, seen_ticket_ids, source) ==
  {i \in DOMAIN store :
     /\ store[i].ip \in ips
     /\ store[i].port \in ports
     /\ store[i].source_id \in source_ids
     /\ i \notin seen_ticket_ids
     /\ store[i].source = source
     /\ store[i].open = TRUE}

\* a faulty close, which leaves time_closed unset
close_ticket_untimed(ticket, reason, closing_time, manual_scan) ==
  LET t1 == check_false_positive_expiration(ticket, closing_time, manual_scan)
  IN IF t1.false_positive = TRUE
     THEN [t1 EXCEPT !.events =
             Append(@, Event(UNVERIFIED, reason, None, closing_time,
                             << >>, manual_scan))]
     ELSE [t1 EXCEPT
             !.open = FALSE,
             !.events = Append(@, Event(CLOSED, reason, None, closing_time,
                                        << >>, manual_scan))]

\* a faulty close, which does not spare the false positives
close_ticket_always(ticket, reason, closing_time, manual_scan) ==
  LET t1 == check_false_positive_expiration(ticket, closing_time, manual_scan)
  IN [t1 EXCEPT
        !.open = FALSE,
        !.time_closed = Some(closing_time),
        !.events = Append(@, Event(CLOSED, reason, None, closing_time,
                                   << >>, manual_scan))]

\* lines 359-385 (and 706-729, 452-475): one ticket not found by the scan
close_ticket(ticket, reason, closing_time, manual_scan) ==
  LET t1 == check_false_positive_expiration(ticket, closing_time, manual_scan)
  IN IF t1.false_positive = TRUE
     THEN [t1 EXCEPT !.events =
             Append(@, Event(UNVERIFIED, reason, None, closing_time,
                             << >>, manual_scan))]
     ELSE [t1 EXCEPT
             !.open = FALSE,
             !.time_closed = Some(closing_time),
             !.events = Append(@, Event(CLOSED, reason, None, closing_time,
                                        << >>, manual_scan))]

\* the store with close_ticket applied to the documents of ids
close_all(store, ids, reason, closing_time, manual_scan) ==
  [i \in DOMAIN store |->
     IF i \in ids
     THEN close_ticket(store[i], reason, closing_time, manual_scan)
     ELSE store[i]]

\* close_tickets()
Vuln_close_tickets ==
  /\ mgr.kind = "vuln"
  /\ LET closing_time == IF mgr.closing_time = None THEN now
                         ELSE Val(mgr.closing_time)
         ids == close_tickets_pl(tickets, mgr.ips, mgr.ports, mgr.source_ids,
                                 mgr.seen_ticket_ids, mgr.source)
         store == close_all(tickets, ids, "vulnerability not detected",
                            closing_time, mgr.manual_scan)
     IN /\ InBounds
        /\ tickets' = store
        /\ mgr' = [mgr EXCEPT !.closing_time = Some(closing_time)]
        /\ last' = Call("vuln_close_tickets", ids, 0, "close", Some(closing_time))
        /\ calls' = calls + 1
        /\ UNCHANGED <<notifications, now, touched, vulnscans>>

\* ----------------------------------------------------- IPPortTicketManager
\* the list a caller hands to the ports setter, kept as what the manager
\* reads of it: which ports of the model it holds, and its length
\* ready_to_clear_vuln_latest_flags() of vulnerability manager m
ready_to_clear_vuln_latest_flags(m) ==
  /\ Cardinality(m.ips) > 0
  /\ Cardinality(m.ports) > 0
  /\ Cardinality(m.source_ids) > 0

port_list(S) == [elems |-> {p \in Ports : p \in S}, len |-> Cardinality(S)]

\* the port lists a port scan is configured with: none, port 80, every port
PortLists == {port_list({}), port_list({80}), port_list(1 .. MAX_PORTS_COUNT)}

\* __init__
IPPortTicketManager(protocols, reopen_days) ==
  /\ InBounds
  /\ mgr' = [kind |-> "port", closing_time |-> None, ips |-> {},
             ports |-> port_list({}), protocols |-> protocols,
             reopen_days |-> reopen_days,
             seen_ip_port |-> [ip \in {} |-> {}]]
  /\ touched' = {}
  /\ last' = NoCall
  /\ UNCHANGED <<tickets, notifications, now, calls, vulnscans>>

\* the ips setter
Port_set_ips(ips) ==
  /\ mgr.kind = "port"
  /\ InBounds
  /\ mgr' = [mgr EXCEPT !.ips = ips]
  /\ last' = NoCall
  /\ UNCHANGED <<tickets, notifications, now, touched, calls, vulnscans>>

\* the ports setter
Port_set_ports(ports) ==
  /\ mgr.kind = "port"
  /\ InBounds
  /\ mgr' = [mgr EXCEPT !.ports = ports]
  /\ last' = NoCall
  /\ UNCHANGED <<tickets, notifications, now, touched, calls, vulnscans>>

\* defaultdict(set): reading seen[ip] for each ip of ips creates the missing
\* entries
seen_touch(seen, ips) ==
  [ip \in DOMAIN seen \cup ips |-> IF ip \in DOMAIN seen THEN seen[ip] ELSE {}]

\* self.__seen_ip_port[ip].add(port)
seen_add(seen, ip, port) ==
  [i \in DOMAIN seen \cup {ip} |->
     (IF i \in DOMAIN seen THEN seen[i] ELSE {}) \cup
     (IF i = ip THEN {port} ELSE {})]

\* port_open(ip, port)
port_open(ip, port) ==
  /\ InBounds
  /\ mgr.kind = "port"
  /\ mgr' = [mgr EXCEPT !.seen_ip_port = seen_add(@, ip, port)]
  /\ last' = NoCall
  /\ UNCHANGED <<tickets, notifications, now, touched, calls, vulnscans>>

\* lines 505-518: the open ticket verified
Port_verify(ticket, portscan, reason) ==
  LET t1 == check_false_positive_expiration(ticket, portscan.time, FALSE)
  IN [ticket |-> [t1 EXCEPT !.events =
                    Append(@, Event(VERIFIED, reason, Some(portscan.id),
                                    portscan.time, << >>, FALSE))],
      notify |-> FALSE]

\* a faulty reopening, which logs OPENED
Port_reopen_opened(ticket, portscan, reason) ==
  [ticket |-> [ticket EXCEPT
                 !.events = Append(@, Event(OPENED, reason, Some(portscan.id),
                                            portscan.time, << >>, FALSE)),
                 !.time_closed = None,
                 !.open = TRUE],
   notify |-> FALSE]

\* a faulty reopening, which keeps the time the ticket was closed
Port_reopen_stale(ticket, portscan, reason) ==
  [ticket |-> [ticket EXCEPT
                 !.events = Append(@, Event(REOPENED, reason, Some(portscan.id),
                                            portscan.time, << >>, FALSE)),
                 !.open = TRUE],
   notify |-> FALSE]

\* lines 535-546: the closed ticket reopened
Port_reopen(ticket, portscan, reason) ==
  [ticket |-> [ticket EXCEPT
                 !.events = Append(@, Event(REOPENED, reason, Some(portscan.id),
                                            portscan.time, << >>, FALSE)),
                 !.time_closed = None,
                 !.open = TRUE],
   notify |-> FALSE]

\* lines 551-558
port_details(portscan) ==
  [cve |-> None, cvss_base_score |-> None, name |-> Some(portscan.name),
   score_source |-> None, service |-> Some(portscan.service),
   severity |-> Some(0)]

\* lines 549-594: the new ticket
Port_new(portscan, reason, closing_time) ==
  LET t0 == [TicketDoc EXCEPT
               !.ip = portscan.ip, !.details = port_details(portscan),
               !.owner = portscan.owner, !.port = portscan.port,
               !.protocol = portscan.protocol,
               !.source_id = portscan.source_id, !.source = portscan.source,
               !.time_opened = Some(portscan.time)]
      host == HostDoc(portscan.ip)
      t1 == IF host # None THEN [t0 EXCEPT !.loc = Some(Val(host).loc)] ELSE t0
      t2 == [t1 EXCEPT !.events =
               Append(@, Event(OPENED, reason, Some(portscan.id),
                               portscan.time, << >>, FALSE))]
  IN [ticket |-> close_unowned(t2, portscan.time, closing_time, FALSE),
      notify |-> TRUE]

\* the effect of open_ticket once the ticket tid and its new content are known
Port_commit(portscan, tid, branch, r, closing_time) ==
  LET store == save(tickets, tid, r.ticket)
      notes == IF r.notify
               THEN Append(notifications, NotificationDoc(tid, r.ticket))
               ELSE notifications
  IN /\ InBounds
     /\ tickets' = store
     /\ notifications' = notes
     /\ mgr' = [mgr EXCEPT !.closing_time = closing_time]
     /\ touched' = touched \cup {tid}
     /\ last' = Call("port_open_ticket", portscan, tid, branch, closing_time)
     /\ calls' = calls + 1
     /\ UNCHANGED <<now, vulnscans>>

\* open_ticket(portscan, reason)
Port_open_ticket(portscan, reason) ==
  /\ mgr.kind = "port"
  /\ LET closing_time == next_closing_time(mgr.closing_time, portscan.time)
         prev == prev_open_tickets(tickets, PortKey(portscan))
         cutoff_date == now - mgr.reopen_days
         reopen == reopen_tickets(tickets, PortKey(portscan), cutoff_date)
     IN IF prev # {}
        THEN \E i \in prev :
               Port_commit(portscan, i, "verify",
                 Port_verify(tickets[i], portscan, reason), closing_time)
        ELSE IF reopen # {}
        THEN \E i \in reopen :
               Port_commit(portscan, i, "reopen",
                 Port_reopen(tickets[i], portscan, reason), closing_time)
        ELSE Port_commit(portscan, Len(tickets) + 1, "new",
               Port_new(portscan, reason, closing_time), closing_time)

\* line 607: the scanned ips without an entry in the seen map
ips_with_no_open_ports(ips, seen) == ips \ DOMAIN seen

\* a faulty query, which also returns the closed tickets of those ips
tickets_to_close_any(store, ips) ==
  {i \in DOMAIN store : store[i].ip \in ips}

\* lines 611-613: every open ticket of those ips
tickets_to_close(store, ips) ==
  {i \in DOMAIN store : store[i].ip \in ips /\ store[i].open = TRUE}

\* a faulty query, which does not look at the ip of a ticket
Port_tickets_any_ip(store, ips, ports, protocols, all_ports_scanned) ==
  {i \in DOMAIN store :
     /\ store[i].open = TRUE
     /\ IF all_ports_scanned THEN store[i].port # 0
        ELSE store[i].port \in ports.elems
     /\ store[i].protocol \in protocols}

\* lines 620-637: the open tickets of the scanned ips and protocols, on a
\* port other than 0 when every port was scanned, else on a scanned port
Port_tickets(store, ips, ports, protocols, all_ports_scanned) ==
  {i \in DOMAIN store :
     /\ store[i].ip \in ips
     /\ store[i].open = TRUE
     /\ IF all_ports_scanned THEN store[i].port # 0
        ELSE store[i].port \in ports.elems
     /\ store[i].protocol \in protocols}

\* a faulty filter, which keeps the tickets whose ip:port was seen open
not_seen_open_inverted(store, ids, seen) ==
  {i \in ids : store[i].port \in seen[store[i].ip]}

\* lines 639-643: those of ids whose ip:port was not seen open
not_seen_open(store, ids, seen) ==
  {i \in ids : store[i].port \notin seen[store[i].ip]}

\* close_tickets(closing_time=None)
Port_close_tickets(closing_time_arg) ==
  /\ mgr.kind = "port"
  /\ LET closing_time == IF closing_time_arg = None THEN now
                         ELSE Val(closing_time_arg)
         all_ports_scanned == mgr.ports.len = MAX_PORTS_COUNT
         ids1 == IF all_ports_scanned
                 THEN tickets_to_close(tickets,
                        ips_with_no_open_ports(mgr.ips, mgr.seen_ip_port))
                 ELSE {}
         store1 == close_all(tickets, ids1, "port not open", closing_time, FALSE)
         ids2 == Port_tickets(store1, mgr.ips, mgr.ports, mgr.protocols,
                              all_ports_scanned)
         seen == seen_touch(mgr.seen_ip_port, {store1[i].ip : i \in ids2})
         ids3 == not_seen_open(store1, ids2, seen)
         store2 == close_all(store1, ids3, "port not open", closing_time, FALSE)
     IN /\ InBounds
        /\ tickets' = store2
        /\ mgr' = [mgr EXCEPT !.seen_ip_port = seen]
        /\ last' = Call("port_close_tickets", ids1 \cup ids3, 0, "close",
                        Some(closing_time))
        /\ calls' = calls + 1
        /\ UNCHANGED <<notifications, now, touched, vulnscans>>

\* --------------------------------------------------------- IPTicketManager
\* __init__
IPTicketManager ==
  /\ InBounds
  /\ mgr' = [kind |-> "host", ips |-> {}, seen_ips |-> {}]
  /\ touched' = {}
  /\ last' = NoCall
  /\ UNCHANGED <<tickets, notifications, now, calls, vulnscans>>

\* the ips setter
IP_set_ips(ips) ==
  /\ mgr.kind = "host"
  /\ InBounds
  /\ mgr' = [mgr EXCEPT !.ips = ips]
  /\ last' = NoCall
  /\ UNCHANGED <<tickets, notifications, now, touched, calls, vulnscans>>

\* ip_up(ip)
ip_up(ip) ==
  /\ InBounds
  /\ mgr.kind = "host"
  /\ mgr' = [mgr EXCEPT !.seen_ips = @ \cup {ip}]
  /\ last' = NoCall
  /\ UNCHANGED <<tickets, notifications, now, touched, calls, vulnscans>>

\* close_tickets(closing_time=None)
IP_close_tickets(closing_time_arg) ==
  /\ mgr.kind = "host"
  /\ LET closing_time == IF closing_time_arg = None THEN now
                         ELSE Val(closing_time_arg)
         not_up_ips == mgr.ips \ mgr.seen_ips
         ids == tickets_to_close(tickets, not_up_ips)
         store == close_all(tickets, ids, "host down", closing_time, FALSE)
     IN /\ InBounds
        /\ tickets' = store
        /\ last' = Call("ip_close_tickets", ids, 0, "close", Some(closing_time))
        /\ calls' = calls + 1
        /\ UNCHANGED <<notifications, now, mgr, touched, vulnscans>>

\* ------------------------------------------------- clear_vuln_latest_flags
\* clear_latest_vulns_pl: the latest records of the source that the scope
\* covers
clear_latest_vulns_pl(docs, ips, ports, source_ids, source) ==
  {i \in DOMAIN docs :
     /\ docs[i].ip \in ips
     /\ docs[i].port \in ports
     /\ docs[i].plugin_id \in source_ids
     /\ docs[i].source = source
     /\ docs[i].latest = TRUE}

\* the collection after doc["latest"] = False; doc.save() for the docs of ids
clear_latest(docs, ids) ==
  [i \in DOMAIN docs |->
     IF i \in ids THEN [docs[i] EXCEPT !.latest = FALSE] ELSE docs[i]]

\* the record of a clear_vuln_latest_flags call
ClearCall(op, ids) ==
  Call(op, ids, 0, "clear", None) @@ [pre_scans |-> vulnscans]

\* VulnTicketManager.clear_vuln_latest_flags()
Vuln_clear_vuln_latest_flags ==
  /\ mgr.kind = "vuln"
  /\ InBounds
  /\ LET ids == clear_latest_vulns_pl(vulnscans, mgr.ips, mgr.ports,
                                      mgr.source_ids, mgr.source)
     IN /\ vulnscans' = clear_latest(vulnscans, ids)
        /\ last' = ClearCall("vuln_clear_vuln_latest_flags", ids)
  /\ calls' = calls + 1
  /\ UNCHANGED <<tickets, notifications, now, mgr, touched>>

\* a faulty query, which returns the latest records of every ip
latest_of_ips_any(docs, ips) ==
  {i \in DOMAIN docs : docs[i].latest = TRUE}

\* lines 650-652 and 737-739: the latest records of the ips
latest_of_ips(docs, ips) ==
  {i \in DOMAIN docs : docs[i].ip \in ips /\ docs[i].latest = TRUE}

\* IPPortTicketManager.clear_vuln_latest_flags()
Port_clear_vuln_latest_flags ==
  /\ mgr.kind = "port"
  /\ InBounds
  /\ LET found == latest_of_ips(vulnscans, mgr.ips)
         seen == seen_touch(mgr.seen_ip_port, {vulnscans[i].ip : i \in found})
         ids == {i \in found : vulnscans[i].port \notin seen[vulnscans[i].ip]}
     IN /\ vulnscans' = clear_latest(vulnscans, ids)
        /\ mgr' = [mgr EXCEPT !.seen_ip_port = seen]
        /\ last' = ClearCall("port_clear_vuln_latest_flags", ids)
  /\ calls' = calls + 1
  /\ UNCHANGED <<tickets, notifications, now, touched>>

\* IPTicketManager.clear_vuln_latest_flags()
IP_clear_vuln_latest_flags ==
  /\ mgr.kind = "host"
  /\ InBounds
  /\ LET ids == latest_of_ips(vulnscans, mgr.ips \ mgr.seen_ips)
     IN /\ vulnscans' = clear_latest(vulnscans, ids)
        /\ last' = ClearCall("ip_clear_vuln_latest_flags", ids)
  /\ calls' = calls + 1
  /\ UNCHANGED <<tickets, notifications, now, mgr, touched>>

\* --------------------------------------------------------- the environment
\* a day passes
Tick ==
  /\ InBounds
  /\ now < MaxTime
  /\ now' = now + 1
  /\ last' = NoCall
  /\ UNCHANGED <<tickets, notifications, mgr, touched, calls, vulnscans>>

\* an analyst marks open ticket i a false positive that expires on day
\* expiration
SetFalsePositive(i, expiration) ==
  /\ InBounds
  /\ i \in DOMAIN tickets
  /\ tickets[i].open = TRUE
  /\ tickets[i].false_positive = FALSE
  /\ tickets' = [tickets EXCEPT
                   ![i].false_positive = TRUE,
                   ![i].false_positive_dates = <<now, expiration>>]
  /\ last' = NoCall
  /\ UNCHANGED <<notifications, now, mgr, touched, calls, vulnscans>>

Next ==
  \/ \E manual_scan \in {FALSE} :
       VulnTicketManager("nessus", TestReopenDays, manual_scan)
  \/ \E ips \in ScopeIPs : Vuln_set_ips(ips)
  \/ \E ports \in {{}, {80}} : Vuln_set_ports(ports)
  \/ \E source_ids \in {{}, {10}} : Vuln_set_source_ids(source_ids)
  \/ \E vuln \in VulnScanDocs(now) : Vuln_open_ticket(vuln, "vulnerability detected")
  \/ Vuln_close_tickets
  \/ \E protocols \in {{"tcp"}, Protocols} :
       IPPortTicketManager(protocols, TestReopenDays)
  \/ \E ips \in ScopeIPs : Port_set_ips(ips)
  \/ \E ports \in PortLists : Port_set_ports(ports)
  \/ \E ip \in UpIPs, port \in Ports \ {0} : port_open(ip, port)
  \/ \E portscan \in PortScanDocs(now) : Port_open_ticket(portscan, "open port")
  \/ \E ct \in ClosingTimes(now) : Port_close_tickets(ct)
  \/ IPTicketManager
  \/ \E ips \in ScopeIPs : IP_set_ips(ips)
  \/ \E ip \in UpIPs : ip_up(ip)
  \/ \E ct \in ClosingTimes(now) : IP_close_tickets(ct)
  \/ Tick
  \/ \E i \in DOMAIN tickets, expiration \in now .. MaxTime :
       SetFalsePositive(i, expiration)

Spec == Init /\ [][Next]_vars

\* ------------------------------------------- the vulnerability manager alone
\* the VulnScanDocs of a scan whose findings change from run to run
RichVulnScanDocs(t) ==
  { VulnScanDoc(p, ip, 80, t) : p \in VulnPayloads, ip \in IPs }

\* the store and the notifications an earlier run left: nothing, or the
\* ticket open_ticket made of one document on day 0
VulnSeeds ==
  {[store |-> << >>, notes |-> << >>]} \cup
  { LET r == Vuln_new(vuln, "vulnerability detected", FALSE, Some(0))
    IN [store |-> <<r.ticket>>,
        notes |-> IF r.notify THEN <<NotificationDoc(1, r.ticket)>> ELSE << >>] :
      vuln \in RichVulnScanDocs(0) }

InitVuln ==
  /\ \E seed \in VulnSeeds : tickets = seed.store /\ notifications = seed.notes
  /\ now = 0
  /\ mgr = [kind |-> "none"]
  /\ touched = {}
  /\ vulnscans = << >>
  /\ calls = 0
  /\ last = NoCall

NextVuln ==
  \/ VulnTicketManager("nessus", TestReopenDays, FALSE)
  \/ \E vuln \in RichVulnScanDocs(now) :
       Vuln_open_ticket(vuln, "vulnerability detected")
  \/ Tick
  \/ \E i \in DOMAIN tickets, expiration \in now .. MaxTime :
       SetFalsePositive(i, expiration)

SpecVuln == InitVuln /\ [][NextVuln]_vars

\* ------------------------------------------------- close_tickets re-run
\* the tickets earlier runs left, all made by open_ticket on day 0: either
\* those of a finding on 1:80, of a finding on port 0 of ip 1 and of an open
\* tcp port of ip 1; or those of an open tcp and an open udp port of ip 1 and
\* of a finding on 2:80 (nobody's ip), closed when it was made and reopened by
\* the next finding
SeedStores ==
  LET v(ip, port) == VulnScanDoc(PlainPayload, ip, port, 0)
      new(ip, port) ==
        Vuln_new(v(ip, port), "vulnerability detected", FALSE, Some(0)).ticket
      open_port(protocol) ==
        Port_new(PortScanDoc(1, protocol, 0), "open port", Some(0)).ticket
  IN { << new(1, 80), new(1, 0), open_port("tcp") >>,
       << open_port("tcp"), open_port("udp"),
          Vuln_reopen(new(2, 80), v(2, 80), "vulnerability detected",
                      FALSE).ticket >> }

InitClose ==
  /\ tickets \in SeedStores
  /\ notifications = << >>
  /\ now = 0
  /\ mgr = [kind |-> "none"]
  /\ touched = {}
  /\ vulnscans = << >>
  /\ calls = 0
  /\ last = NoCall

\* the runs that only reconcile: scope, liveness, close_tickets
NextClose ==
  \/ VulnTicketManager("nessus", TestReopenDays, FALSE)
  \/ \E ips \in ScopeIPs : Vuln_set_ips(ips)
  \/ \E ports \in {{}, {80}} : Vuln_set_ports(ports)
  \/ \E source_ids \in {{}, {10}} : Vuln_set_source_ids(source_ids)
  \/ Vuln_close_tickets
  \/ \E protocols \in {{}, {"tcp"}} : IPPortTicketManager(protocols, TestReopenDays)
  \/ \E ips \in ScopeIPs : Port_set_ips(ips)
  \/ \E ports \in PortLists \cup {port_list({0, 80})} : Port_set_ports(ports)
  \/ \E ip \in UpIPs, port \in Ports \ {0} : port_open(ip, port)
  \/ \E ct \in ClosingTimes(now) : Port_close_tickets(ct)
  \/ IPTicketManager
  \/ \E ips \in ScopeIPs : IP_set_ips(ips)
  \/ \E ip \in UpIPs : ip_up(ip)
  \/ \E ct \in ClosingTimes(now) : IP_close_tickets(ct)
  \/ Tick
  \/ \E i \in DOMAIN tickets, expiration \in now .. MaxTime :
       SetFalsePositive(i, expiration)

SpecClose == InitClose /\ [][NextClose]_vars

\* ------------------------------------------------------ the latest flags
\* a stored VulnScanDoc
StoredScan(ip, port, plugin_id, source, latest) ==
  [ip |-> ip, port |-> port, plugin_id |-> plugin_id, source |-> source,
   latest |-> latest]

\* the VulnScanDoc collection earlier runs left: latest records of two ips,
\* two ports, two plugins and two sources, and a record that is not latest
StoredScans ==
  << StoredScan(1, 80, 10, "nessus", TRUE),
     StoredScan(1, 0, 10, "nessus", TRUE),
     StoredScan(2, 80, 10, "nessus", TRUE),
     StoredScan(1, 80, 11, "nessus", TRUE),
     StoredScan(1, 80, 10, "other", TRUE),
     StoredScan(1, 80, 10, "nessus", FALSE) >>

InitLatest ==
  /\ tickets \in SeedStores
  /\ notifications = << >>
  /\ vulnscans = StoredScans
  /\ now = 0
  /\ mgr = [kind |-> "none"]
  /\ touched = {}
  /\ calls = 0
  /\ last = NoCall

NextLatest ==
  \/ VulnTicketManager("nessus", TestReopenDays, FALSE)
  \/ \E ips \in ScopeIPs : Vuln_set_ips(ips)
  \/ \E ports \in {{}, {80}} : Vuln_set_ports(ports)
  \/ \E source_ids \in {{}, {10}} : Vuln_set_source_ids(source_ids)
  \/ \E vuln \in VulnScanDocs(now) : Vuln_open_ticket(vuln, "vulnerability detected")
  \/ Vuln_clear_vuln_latest_flags
  \/ IPPortTicketManager({"tcp"}, TestReopenDays)
  \/ \E ips \in ScopeIPs : Port_set_ips(ips)
  \/ \E ports \in PortLists : Port_set_ports(ports)
  \/ \E ip \in UpIPs, port \in Ports \ {0} : port_open(ip, port)
  \/ Port_clear_vuln_latest_flags
  \/ \E ct \in ClosingTimes(now) : Port_close_tickets(ct)
  \/ IPTicketManager
  \/ \E ips \in ScopeIPs : IP_set_ips(ips)
  \/ \E ip \in UpIPs : ip_up(ip)
  \/ IP_clear_vuln_latest_flags

SpecLatest == InitLatest /\ [][NextLatest]_vars

\* ------------------------------------------------------ the severity alone
\* the CVSS scores (in tenths) around the thresholds of the two versions
Scores == {0, 39, 40, 69, 70, 89, 90, 100}

\* what the findings report: a severity, a CVSS score of version 2 or 3,
\* and no CVE, a CVE the NVD knows, or one it does not know; and a finding
\* that has a score of version 3 and none of version 2
SeverityPayloads ==
  { [severity |-> s, cvss_base_score |-> c] : s \in {0, 2, 4}, c \in Scores }
  \cup
  { [severity |-> s, cvss_base_score |-> 50, cvss3_base_score |-> c] :
      s \in {0, 2, 4}, c \in Scores }
  \cup
  { [severity |-> s, cvss_base_score |-> c, cve |-> cve] :
      s \in {0, 4}, c \in {0, 100}, cve \in {"CVE-1", "CVE-2"} }
  \cup
  { [severity |-> 1, cvss3_base_score |-> 95] }

SeverityDocs(t) == { VulnScanDoc(p, 1, 80, t) : p \in SeverityPayloads }

InitSeverity == Init

NextSeverity ==
  \/ VulnTicketManager("nessus", TestReopenDays, FALSE)
  \/ \E vuln \in SeverityDocs(now) :
       Vuln_open_ticket(vuln, "vulnerability detected")

SpecSeverity == InitSeverity /\ [][NextSeverity]_vars

\* ------------------------------------------------ the notifications alone
\* open_ticket of the vulnerability and the port manager on an empty store,
\* with vulnerability findings of every severity
NotifyVulnScanDocs(t) ==
  RichVulnScanDocs(t) \cup
  { VulnScanDoc([severity |-> 1, cvss_base_score |-> 50, cve |-> "CVE-2"],
                1, 80, t) }

InitNotify == Init

NextNotify ==
  \/ VulnTicketManager("nessus", TestReopenDays, FALSE)
  \/ \E vuln \in NotifyVulnScanDocs(now) :
       Vuln_open_ticket(vuln, "vulnerability detected")
  \/ \E protocols \in {{"tcp"}} : IPPortTicketManager(protocols, TestReopenDays)
  \/ \E portscan \in PortScanDocs(now) : Port_open_ticket(portscan, "open port")
  \/ Tick

SpecNotify == InitNotify /\ [][NextNotify]_vars

\* ------------------------------------------------ __calculate_delta alone
\* the largest value of a details mapping
MaxVal == 4

DeltaKeys == {"a", "b", "c"}

DeltaVals == {None} \cup {Some(v) : v \in 1 .. MaxVal}

\* the mark of a key a mapping does not have
Absent == Some(0)

\* the mapping that holds the keys f does not mark absent
Dict(f) == [k \in {j \in DOMAIN f : f[j] # Absent} |-> f[k]]

\* the details mappings: any of the keys, each with a value or with None
Dicts == [DeltaKeys -> DeltaVals \cup {Absent}]

\* the two mappings a caller is about to compare
InitDelta ==
  /\ tickets = << >>
  /\ notifications = << >>
  /\ now = 0
  /\ mgr = [kind |-> "none"]
  /\ touched = {}
  /\ vulnscans = << >>
  /\ calls = 0
  /\ \E f1 \in Dicts, f2 \in Dicts :
       last = [op |-> "input", d1 |-> Dict(f1), d2 |-> Dict(f2)]

\* the call __calculate_delta(d1, d2)
Calculate_delta ==
  /\ last.op = "input"
  /\ last' = [op |-> "calculate_delta", d1 |-> last.d1, d2 |-> last.d2,
              delta |-> calculate_delta(last.d1, last.d2)]
  /\ UNCHANGED <<tickets, notifications, now, mgr, touched, calls, vulnscans>>

NextDelta == Calculate_delta

SpecDelta == InitDelta /\ [][NextDelta]_vars

\* =============================================================== properties
OpenOps == {"vuln_open_ticket", "port_open_ticket"}

CloseOps == {"vuln_close_tickets", "port_close_tickets", "ip_close_tickets"}

\* the identity key the open_ticket call of last looked up
CallKey == IF last.op = "vuln_open_ticket" THEN VulnKey(last.arg)
           ELSE PortKey(last.arg)

\* the events the call of last appended to ticket i
NewEvents(i) ==
  IF i \in DOMAIN last.pre
  THEN SubSeq(tickets[i].events, Len(last.pre[i].events) + 1,
              Len(tickets[i].events))
  ELSE tickets[i].events

\* the positions of the VERIFIED events of a log that reference a document
VerifiedBy(events, id) ==
  {n \in DOMAIN events :
     events[n].action = VERIFIED /\ events[n].reference = Some(id)}

\* ----------------------------------------------------------------------- C1
\* C1: whatever open_ticket and close_tickets calls the three managers made
\* on the shared store, no two stored tickets with the same identity key
\* (ip, port, protocol, source, source_id) are both open.
C1_Uniqueness ==
  \A i \in DOMAIN tickets, j \in DOMAIN tickets :
    (i # j /\ tickets[i].open = TRUE /\ tickets[j].open = TRUE)
      => KeyOf(tickets[i]) # KeyOf(tickets[j])

\* open_ticket was called for a key that had an open ticket, and that ticket
\* is still the only open one of its key
C1_Witness ==
  /\ last.op \in OpenOps
  /\ last.branch = "verify"
  /\ last.pre[last.tid].open = TRUE
  /\ Len(tickets) = Len(last.pre)
  /\ {i \in DOMAIN tickets :
        KeyOf(tickets[i]) = CallKey /\ tickets[i].open = TRUE} = {last.tid}

\* ----------------------------------------------------------------------- C2
\* the vulnerability manager has just verified a ticket with the finding it
\* verified the same ticket with in the call before, and the details the
\* ticket held did not differ from the finding's
C2_SecondVerify ==
  /\ last.op = "vuln_open_ticket"
  /\ last.branch = "verify"
  /\ last.prev.op = "vuln_open_ticket"
  /\ last.prev.branch = "verify"
  /\ last.prev.arg = last.arg
  /\ last.prev.tid = last.tid
  /\ last.pre[last.tid].details = new_details(last.arg)

\* C2 as stated: after the second of two open_ticket calls with the same
\* finding and unchanged details, the log of the ticket holds exactly one
\* VERIFIED event that references the finding, and the second call appended
\* no CHANGED event.
C2_Original ==
  C2_SecondVerify =>
    /\ Cardinality(VerifiedBy(tickets[last.tid].events, last.arg.id)) = 1
    /\ \A n \in DOMAIN NewEvents(last.tid) :
         NewEvents(last.tid)[n].action # CHANGED

\* C2 (amended): every open_ticket call that finds the open ticket appends a
\* VERIFIED event that references the finding, so after two such calls with the
\* same finding the log holds one more than after the first; with unchanged
\* details that VERIFIED event is the only event the second call appends (no
\* CHANGED event), and the second call creates no notification.
C2_Reverification ==
  C2_SecondVerify =>
    /\ NewEvents(last.tid) =
         <<Event(VERIFIED, "vulnerability detected", Some(last.arg.id),
                 last.arg.time, << >>, last.pre_mgr.manual_scan)>>
    /\ Cardinality(VerifiedBy(tickets[last.tid].events, last.arg.id)) =
         Cardinality(VerifiedBy(last.pre[last.tid].events, last.arg.id)) + 1
    /\ VerifiedBy(last.pre[last.tid].events, last.arg.id) # {}
    /\ Len(notifications) = last.pre_notes

\* the second call was made, and the log now holds two VERIFIED events that
\* reference the finding
C2_Witness ==
  /\ C2_SecondVerify
  /\ Cardinality(VerifiedBy(tickets[last.tid].events, last.arg.id)) = 2

\* ----------------------------------------------------------------------- C3
\* the closed tickets of the key the open_ticket call of last looked up
ClosedAt ==
  {i \in DOMAIN last.pre :
     /\ KeyOf(last.pre[i]) = CallKey
     /\ last.pre[i].open = FALSE
     /\ last.pre[i].time_closed # None}

\* open_ticket was called for a key without an open ticket
C3_NoOpenTicket ==
  /\ last.op \in OpenOps
  /\ ~ \E i \in DOMAIN last.pre :
         KeyOf(last.pre[i]) = CallKey /\ last.pre[i].open = TRUE

\* the call reopened ticket i and created no ticket
Reopened(i) ==
  /\ last.branch = "reopen"
  /\ last.tid = i
  /\ Len(tickets) = Len(last.pre)
  /\ tickets[i].open = TRUE
  /\ tickets[i].time_closed = None
  /\ tickets[i].events[Len(tickets[i].events)].action = REOPENED
  /\ \A j \in DOMAIN last.pre : j # i => tickets[j] = last.pre[j]

\* the call created a ticket and left the stored ones as they were
CreatedNew ==
  /\ last.branch = "new"
  /\ Len(tickets) = Len(last.pre) + 1
  /\ last.tid = Len(tickets)
  /\ \A j \in DOMAIN last.pre : tickets[j] = last.pre[j]

\* C3 as stated: with the one ticket of the key closed at T and reopen window
\* W, a finding whose time is earlier than T+W reopens it, and a finding whose
\* time is later than T+W creates a new ticket, whatever the wall-clock time.
C3_Original ==
  (C3_NoOpenTicket /\ Cardinality(ClosedAt) = 1) =>
    \A i \in ClosedAt :
      LET T == Val(last.pre[i].time_closed)
          W == last.pre_mgr.reopen_days
      IN /\ last.arg.time < T + W => Reopened(i)
         /\ last.arg.time > T + W => CreatedNew

\* C3 (amended): the window is measured from the wall-clock time of the call,
\* not from the time of the finding.  For a key with no open ticket,
\* open_ticket (vulnerability or port manager) reopens a ticket of the key
\* closed at T when the call is made before T+W (REOPENED event, open=true,
\* time_closed cleared, no new ticket), and creates a new ticket, leaving the
\* closed ones as they are, when the call is made at T+W or later.
C3_ReopenWindow ==
  C3_NoOpenTicket =>
    LET W == last.pre_mgr.reopen_days
        R == {i \in ClosedAt : last.pre_now < Val(last.pre[i].time_closed) + W}
    IN IF R # {} THEN last.tid \in R /\ Reopened(last.tid) ELSE CreatedNew

\* a ticket closed inside the window was reopened
C3_Witness ==
  /\ C3_NoOpenTicket
  /\ \E i \in ClosedAt : Reopened(i)

\* ----------------------------------------------------------------------- C4
\* ticket i was open and a false positive that expires after the closing time
\* of the close_tickets call of last
FalsePositiveInForce(i) ==
  /\ last.pre[i].open = TRUE
  /\ last.pre[i].false_positive = TRUE
  /\ fp_expiration_date(last.pre[i]) > Val(last.ct)

\* C4: close_tickets of any of the three managers never closes an open ticket
\* that is a false positive whose expiration date is later than the closing
\* time: the ticket stays open, stays a false positive with time_closed null,
\* and when the call processes it, it gets UNVERIFIED events and no CLOSED
\* event.
C4_FalsePositiveCarveOut ==
  last.op \in CloseOps =>
    \A i \in DOMAIN last.pre :
      FalsePositiveInForce(i) =>
        /\ tickets[i].open = TRUE
        /\ tickets[i].false_positive = TRUE
        /\ tickets[i].time_closed = None
        /\ \A n \in DOMAIN NewEvents(i) : NewEvents(i)[n].action = UNVERIFIED
        /\ i \in last.arg => NewEvents(i) # << >>
        /\ i \notin last.arg => tickets[i] = last.pre[i]

\* close_tickets processed such a false positive and logged UNVERIFIED
C4_Witness ==
  /\ last.op \in CloseOps
  /\ \E i \in last.arg :
       /\ FalsePositiveInForce(i)
       /\ tickets[i].open = TRUE
       /\ NewEvents(i) # << >>
       /\ NewEvents(i)[1].action = UNVERIFIED

\* ----------------------------------------------------------------------- C5
\* the CHANGED event of an expired false positive, logged at a time
IsExpiryEvent(e, time) ==
  /\ e.action = CHANGED
  /\ e.reason = "False positive expired"
  /\ e.delta = fp_delta
  /\ e.time = time

\* ticket i was open and a false positive that expired before a time
FalsePositiveExpired(i, time) ==
  /\ last.pre[i].open = TRUE
  /\ last.pre[i].false_positive = TRUE
  /\ fp_expiration_date(last.pre[i]) < time

\* C5: when open_ticket verifies, or close_tickets processes, an open false
\* positive whose expiration date is earlier than the event time of the call
\* (the time of the finding, the closing time), the ticket is no false positive
\* any more and the CHANGED event of the expiry (key false_positive, true to
\* false, "False positive expired") is logged right before the VERIFIED or the
\* CLOSED event of the call; close_tickets closes the ticket and logs no
\* UNVERIFIED event.
C5_FalsePositiveExpiry ==
  /\ (last.op \in OpenOps /\ last.branch = "verify"
        /\ FalsePositiveExpired(last.tid, last.arg.time)) =>
       LET ne == NewEvents(last.tid) IN
         /\ tickets[last.tid].false_positive = FALSE
         /\ Len(ne) >= 2
         /\ ne[Len(ne)].action = VERIFIED
         /\ IsExpiryEvent(ne[Len(ne) - 1], last.arg.time)
  /\ last.op \in CloseOps =>
       \A i \in last.arg :
         FalsePositiveExpired(i, Val(last.ct)) =>
           /\ tickets[i].false_positive = FALSE
           /\ tickets[i].open = FALSE
           /\ tickets[i].time_closed = last.ct
           /\ Len(NewEvents(i)) = 2
           /\ IsExpiryEvent(NewEvents(i)[1], Val(last.ct))
           /\ NewEvents(i)[2].action = CLOSED

\* close_tickets met an expired false positive and closed it
C5_Witness ==
  /\ last.op \in CloseOps
  /\ \E i \in last.arg :
       /\ FalsePositiveExpired(i, Val(last.ct))
       /\ tickets[i].open = FALSE
       /\ IsExpiryEvent(NewEvents(i)[1], Val(last.ct))

\* open_ticket verified an expired false positive
C5_VerifyReached ==
  /\ last.op \in OpenOps
  /\ last.branch = "verify"
  /\ FalsePositiveExpired(last.tid, last.arg.time)

\* ----------------------------------------------------------------------- C6
\* the key of ticket t lies inside the Scope of vulnerability manager m
InVulnScope(t, m) ==
  /\ t.ip \in m.ips
  /\ t.port \in m.ports
  /\ t.source_id \in m.source_ids
  /\ t.source = m.source

\* the key of ticket t lies inside the Scope of port manager m
InPortScope(t, m) ==
  /\ t.ip \in m.ips
  /\ t.port \in m.ports.elems
  /\ t.protocol \in m.protocols

\* port manager m was told that the port of ticket t is open
SeenOpen(t, m) ==
  t.ip \in DOMAIN m.seen_ip_port /\ t.port \in m.seen_ip_port[t.ip]

\* ticket i was in the Scope of the run that called close_tickets, open, no
\* false positive, and the run neither passed it to open_ticket nor marked it
\* seen
InScopeUnseen(i) ==
  /\ last.pre[i].open = TRUE
  /\ last.pre[i].false_positive = FALSE
  /\ i \notin last.pre_touched
  /\ \/ /\ last.op = "vuln_close_tickets"
        /\ InVulnScope(last.pre[i], last.pre_mgr)
        /\ i \notin last.pre_mgr.seen_ticket_ids
     \/ /\ last.op = "port_close_tickets"
        /\ InPortScope(last.pre[i], last.pre_mgr)
        /\ ~ SeenOpen(last.pre[i], last.pre_mgr)

\* ticket i is closed at the closing time of the call of last, its last event
\* the CLOSED event of that time without a reference
ClosedByRun(i) ==
  /\ tickets[i].open = FALSE
  /\ tickets[i].time_closed = last.ct
  /\ LET e == tickets[i].events[Len(tickets[i].events)]
     IN e.action = CLOSED /\ e.time = Val(last.ct) /\ e.reference = None

\* C6: after close_tickets of the vulnerability or the port manager, every
\* ticket that was open, no false positive, inside the Scope of the run and
\* neither passed to open_ticket nor marked seen is stored with open=false,
\* time_closed equal to the closing time of the run, and a CLOSED event of that
\* time with a null reference as its last event.
C6_ScopeBasedClosing ==
  last.op \in {"vuln_close_tickets", "port_close_tickets"} =>
    \A i \in DOMAIN last.pre : InScopeUnseen(i) => ClosedByRun(i)

\* close_tickets of the port manager closed such a ticket
C6_Witness ==
  /\ last.op = "port_close_tickets"
  /\ \E i \in DOMAIN last.pre : InScopeUnseen(i) /\ ClosedByRun(i)

\* close_tickets of the vulnerability manager closed such a ticket
C6_VulnReached ==
  /\ last.op = "vuln_close_tickets"
  /\ \E i \in DOMAIN last.pre : InScopeUnseen(i) /\ ClosedByRun(i)

\* ----------------------------------------------------------------------- C7
\* the vulnerability manager verified or reopened a ticket that was no false
\* positive
C7_Updated ==
  /\ last.op = "vuln_open_ticket"
  /\ last.branch \in {"verify", "reopen"}
  /\ last.pre[last.tid].false_positive = FALSE

\* the details of the ticket went from severity below 3 to 3 or above
SeverityCrossed ==
  /\ Val(last.pre[last.tid].details.severity) < 3
  /\ Val(tickets[last.tid].details.severity) >= 3

\* the details of the ticket went from kev false to kev true
KevRaised ==
  /\ last.pre[last.tid].details.kev = Some(FALSE)
  /\ tickets[last.tid].details.kev = Some(TRUE)

\* C7: an open_ticket call of the vulnerability manager that verifies or
\* reopens a ticket that is no false positive creates exactly one notification
\* (for that ticket) when severity goes from below 3 to 3 or above or kev goes
\* from false to true, also when both happen at once, and creates none
\* otherwise: not for severity 3 to 4, not for kev true to false, not for an
\* empty delta.
C7_SeverityCrossingNotification ==
  C7_Updated =>
    IF SeverityCrossed \/ KevRaised
    THEN /\ Len(notifications) = last.pre_notes + 1
         /\ notifications[Len(notifications)] =
              NotificationDoc(last.tid, tickets[last.tid])
    ELSE Len(notifications) = last.pre_notes

\* severity crossed and kev was raised in one call, and one notification was
\* created
C7_Witness ==
  /\ C7_Updated
  /\ SeverityCrossed
  /\ KevRaised
  /\ Len(notifications) = last.pre_notes + 1

\* severity went from 3 to 4
C7_HighToCritical ==
  /\ C7_Updated
  /\ last.pre[last.tid].details.severity = Some(3)
  /\ tickets[last.tid].details.severity = Some(4)
  /\ ~ KevRaised

\* kev went from true to false, severity stayed
C7_KevDropped ==
  /\ C7_Updated
  /\ last.pre[last.tid].details.kev = Some(TRUE)
  /\ tickets[last.tid].details.kev = Some(FALSE)
  /\ ~ SeverityCrossed

\* ----------------------------------------------------------------------- C8
\* open_ticket created a ticket for a document of the unknown owner
C8_NewUnowned ==
  /\ last.op \in OpenOps
  /\ last.branch = "new"
  /\ last.arg.owner = UNKNOWN_OWNER

\* C8: a ticket that open_ticket (vulnerability or port manager) creates for
\* the unknown owner is stored closed by that call: open=false, time_closed
\* equal to the closing time of the run, and a log that is exactly OPENED, then
\* CLOSED with reason "No associated owner".
C8_UnknownOwnerAutoClose ==
  C8_NewUnowned =>
    LET t == tickets[last.tid] IN
      /\ last.tid \notin DOMAIN last.pre
      /\ t.owner = UNKNOWN_OWNER
      /\ t.open = FALSE
      /\ t.time_closed = mgr.closing_time
      /\ t.time_closed # None
      /\ Len(t.events) = 2
      /\ t.events[1].action = OPENED
      /\ t.events[2].action = CLOSED
      /\ t.events[2].reason = "No associated owner"

\* the port manager created such a ticket, and it is stored closed
C8_Witness ==
  /\ C8_NewUnowned
  /\ last.op = "port_open_ticket"
  /\ tickets[last.tid].open = FALSE
  /\ Len(tickets[last.tid].events) = 2

\* ----------------------------------------------------------------------- C9
\* the positions of the entries of a delta for key k
EntriesOf(delta, k) == {n \in DOMAIN delta : delta[n].key = k}

\* C9: the delta of two mappings d1 and d2 holds exactly one entry for every
\* key of either whose values differ (a missing key reads as null), with
\* from = the value of d1 and to = the value of d2, no entry for a key whose
\* values are equal, and no entry for any other key.
C9_DeltaCompleteness ==
  last.op = "calculate_delta" =>
    /\ \A k \in DOMAIN last.d1 \cup DOMAIN last.d2 :
         IF Get(last.d1, k) # Get(last.d2, k)
         THEN /\ Cardinality(EntriesOf(last.delta, k)) = 1
              /\ \A n \in EntriesOf(last.delta, k) :
                   /\ last.delta[n].from = Get(last.d1, k)
                   /\ last.delta[n].to = Get(last.d2, k)
         ELSE EntriesOf(last.delta, k) = {}
    /\ \A n \in DOMAIN last.delta :
         last.delta[n].key \in DOMAIN last.d1 \cup DOMAIN last.d2

\* {a:1, b:2} against {a:1, b:3, c:4}: entries for b and c only
C9_Witness ==
  /\ last.op = "calculate_delta"
  /\ last.d1 = [a |-> Some(1), b |-> Some(2)]
  /\ last.d2 = [a |-> Some(1), b |-> Some(3), c |-> Some(4)]
  /\ Len(last.delta) = 2
  /\ \E n \in DOMAIN last.delta :
       last.delta[n] = [key |-> "b", from |-> Some(2), to |-> Some(3)]
  /\ \E n \in DOMAIN last.delta :
       last.delta[n] = [key |-> "c", from |-> None, to |-> Some(4)]

\* ---------------------------------------------------------------------- C10
\* C10 as stated: a ticket that open_ticket of the vulnerability or of the
\* port manager resolved during a run is marked seen by it, and close_tickets
\* of the same run leaves it as it is: not closed, no UNVERIFIED event.
C10_Original ==
  /\ last.op = "port_open_ticket" => SeenOpen(tickets[last.tid], mgr)
  /\ last.op \in {"vuln_close_tickets", "port_close_tickets"} =>
       \A i \in last.pre_touched : tickets[i] = last.pre[i]

\* C10 (amended): open_ticket of the vulnerability manager adds the ticket it
\* resolved to the seen set of the run, and close_tickets of that run leaves
\* such a ticket as it is.  open_ticket of the port manager marks nothing:
\* its seen set changes only by port_open, close_tickets leaves a ticket that
\* open_ticket resolved alone when its ip and port were reported by port_open,
\* and closes it (UNVERIFIED for a false positive) when it is open, in scope
\* and its ip and port were not reported.
C10_TouchedTickets ==
  /\ last.op = "vuln_open_ticket" => last.tid \in mgr.seen_ticket_ids
  /\ last.op = "vuln_close_tickets" =>
       \A i \in last.pre_touched : tickets[i] = last.pre[i]
  /\ last.op = "port_open_ticket" =>
       mgr.seen_ip_port = last.pre_mgr.seen_ip_port
  /\ last.op = "port_close_tickets" =>
       \A i \in last.pre_touched :
         /\ SeenOpen(last.pre[i], last.pre_mgr) => tickets[i] = last.pre[i]
         /\ (/\ last.pre[i].open = TRUE
             /\ InPortScope(last.pre[i], last.pre_mgr)
             /\ ~ SeenOpen(last.pre[i], last.pre_mgr)) =>
              /\ NewEvents(i) # << >>
              /\ NewEvents(i)[Len(NewEvents(i))].action \in {CLOSED, UNVERIFIED}

\* close_tickets of the vulnerability manager met an open ticket of its scope
\* that open_ticket resolved in the same run, and left it as it was
C10_Witness ==
  /\ last.op = "vuln_close_tickets"
  /\ \E i \in last.pre_touched :
       /\ last.pre[i].open = TRUE
       /\ InVulnScope(last.pre[i], last.pre_mgr)
       /\ tickets[i] = last.pre[i]

\* close_tickets of the port manager closed a ticket that open_ticket opened
\* in the same run
C10_PortClosed ==
  /\ last.op = "port_close_tickets"
  /\ \E i \in last.pre_touched :
       last.pre[i].open = TRUE /\ tickets[i].open = FALSE

\* ---------------------------------------------------------------------- C11
\* the call of last changed no ticket but the one it resolved, and that one
\* only by appending events
OnlyAppended ==
  /\ \A j \in DOMAIN last.pre : j # last.tid => tickets[j] = last.pre[j]
  /\ Len(tickets) = IF last.tid \in DOMAIN last.pre THEN Len(last.pre)
                    ELSE Len(last.pre) + 1
  /\ last.tid \in DOMAIN last.pre =>
       SubSeq(tickets[last.tid].events, 1, Len(last.pre[last.tid].events)) =
         last.pre[last.tid].events

\* the event that records the path open_ticket took
PathEvent == CASE last.branch = "verify" -> VERIFIED
               [] last.branch = "reopen" -> REOPENED
               [] last.branch = "new" -> OPENED

\* C11 as stated: every open_ticket call (vulnerability or port manager)
\* persists exactly one new event in total, on exactly one ticket.
C11_Original ==
  last.op \in OpenOps => OnlyAppended /\ Len(NewEvents(last.tid)) = 1

\* C11 (amended): every open_ticket call persists events on exactly one
\* ticket, the one it resolved, and at least one: exactly one OPENED, VERIFIED
\* or REOPENED event (for the new, verify and reopen path), preceded by one
\* CHANGED event for details that differ and one for a false positive that
\* expired, and followed by a CLOSED event exactly when the ticket is new and
\* has the unknown owner.  A call persists between one and three events.
C11_EventsPerCall ==
  last.op \in OpenOps =>
    LET ne == NewEvents(last.tid)
        p == {n \in DOMAIN ne : ne[n].action = PathEvent}
    IN /\ OnlyAppended
       /\ Len(ne) \in 1 .. 3
       /\ Cardinality(p) = 1
       /\ \A n \in DOMAIN ne, k \in p :
            /\ n < k => ne[n].action = CHANGED
            /\ n > k => ne[n].action = CLOSED
       /\ (\E n \in DOMAIN ne : ne[n].action = CLOSED) <=>
            (last.branch = "new" /\ last.arg.owner = UNKNOWN_OWNER)
       /\ Cardinality({n \in DOMAIN ne : ne[n].reason = "details changed"}) <= 1
       /\ Cardinality({n \in DOMAIN ne : ne[n].reason = "False positive expired"}) <= 1

\* a call that found the open ticket persisted two events on it
C11_Witness ==
  /\ last.op \in OpenOps
  /\ last.branch = "verify"
  /\ Len(NewEvents(last.tid)) = 2

\* a call of the vulnerability manager persisted three events
C11_ThreeEvents ==
  /\ last.op = "vuln_open_ticket"
  /\ Len(NewEvents(last.tid)) = 3

\* ---------------------------------------------------------------------- C12
\* the times of a log do not decrease along the list
Monotone(events) ==
  \A m \in DOMAIN events, n \in DOMAIN events :
    m < n => events[m].time <= events[n].time

\* the call of last kept the events every stored ticket had, in place
AppendOnly ==
  \A i \in DOMAIN last.pre :
    /\ i \in DOMAIN tickets
    /\ Len(tickets[i].events) >= Len(last.pre[i].events)
    /\ SubSeq(tickets[i].events, 1, Len(last.pre[i].events)) =
         last.pre[i].events

\* the time the call of last dates its events with: the time of the finding,
\* the closing time
EventTime == IF last.op \in OpenOps THEN last.arg.time ELSE Val(last.ct)

\* C12 as stated: whatever the order of the time fields of the findings, the
\* events list of every stored ticket is only extended at its end and the
\* times of its events do not decrease in list order.
C12_Original ==
  /\ last.op \in OpenOps \cup CloseOps => AppendOnly
  /\ \A i \in DOMAIN tickets : Monotone(tickets[i].events)

\* C12 (amended): open_ticket and close_tickets only extend the events list
\* of a stored ticket at its end, and date every event they append with the
\* event time of the call (the time of the finding, the closing time).  The
\* times of a log stay non-decreasing over a call when that event time is not
\* earlier than the time of the last event the ticket had; the code does not
\* order the events of findings that arrive out of the order of their times.
C12_EventTimes ==
  last.op \in OpenOps \cup CloseOps =>
    /\ AppendOnly
    /\ \A i \in DOMAIN tickets :
         /\ \A n \in DOMAIN NewEvents(i) : NewEvents(i)[n].time = EventTime
         /\ (i \in DOMAIN last.pre
               /\ Monotone(last.pre[i].events)
               /\ \A n \in DOMAIN last.pre[i].events :
                    last.pre[i].events[n].time <= EventTime)
              => Monotone(tickets[i].events)

\* a finding older than the last event of the open ticket was passed to
\* open_ticket, and its VERIFIED event now follows a later event
C12_Witness ==
  /\ last.op \in OpenOps
  /\ last.branch = "verify"
  /\ NewEvents(last.tid) # << >>
  /\ \E n \in DOMAIN last.pre[last.tid].events :
       last.pre[last.tid].events[n].time > last.arg.time
  /\ ~ Monotone(tickets[last.tid].events)

\* ---------------------------------------------------------------------- C13
\* close_tickets was called right after a close_tickets call of the same
\* manager: same Scope, same Seen data, same closing time
C13_Rerun ==
  /\ last.op \in CloseOps
  /\ last.prev.op = last.op
  /\ last.prev.ct = last.ct

\* C13 as stated: the second close_tickets call leaves every stored ticket
\* exactly as the first one left it.
C13_Original == C13_Rerun => tickets = last.pre

\* C13 (amended): the second close_tickets call leaves every ticket as the
\* first one left it, except the open false positives among its candidates:
\* each of these gets UNVERIFIED events again, and nothing else of it changes.
C13_RerunIdempotence ==
  C13_Rerun =>
    /\ Len(tickets) = Len(last.pre)
    /\ \A i \in DOMAIN last.pre :
         \/ tickets[i] = last.pre[i]
         \/ /\ last.pre[i].open = TRUE
            /\ last.pre[i].false_positive = TRUE
            /\ i \in last.arg
            /\ NewEvents(i) # << >>
            /\ \A n \in DOMAIN NewEvents(i) : NewEvents(i)[n].action = UNVERIFIED
            /\ tickets[i] = [last.pre[i] EXCEPT !.events = @ \o NewEvents(i)]

\* the first call closed a ticket, and the second call changed nothing
C13_Witness ==
  /\ C13_Rerun
  /\ last.prev.arg # {}
  /\ \E i \in last.prev.arg : tickets[i].open = FALSE
  /\ tickets = last.pre

\* the second call logged UNVERIFIED again on a false positive
C13_Relogged ==
  /\ C13_Rerun
  /\ tickets # last.pre


\* ---------------------------------------------------------------------- C14
\* the latest finding time of the run is kept: after open_ticket the manager's
\* closing time is the finding's time or the time kept before, whichever is
\* later
LatestFindingKept ==
  last.op \in OpenOps =>
    /\ mgr.closing_time # None
    /\ Val(mgr.closing_time) >= last.arg.time
    /\ last.pre_mgr.closing_time # None =>
         Val(mgr.closing_time) >= Val(last.pre_mgr.closing_time)
    /\ \/ mgr.closing_time = Some(last.arg.time)
       \/ mgr.closing_time = last.pre_mgr.closing_time

\* the closing time by default: the latest finding time of the run, and the
\* wall clock when the run had no finding
DefaultClosingTime(m, clock) ==
  IF m.closing_time = None THEN Some(clock) ELSE m.closing_time

\* C14 as stated: without an explicit closing time, close_tickets of the
\* vulnerability manager and of the port manager closes at the latest finding
\* time of the run, and at wall-clock time only when the run had no finding.
C14_Original ==
  [][(Vuln_close_tickets \/ Port_close_tickets(None)) =>
       last'.ct = DefaultClosingTime(mgr, now)]_vars

\* C14 (amended): close_tickets of the vulnerability manager closes at the
\* latest finding time of the run, and at wall-clock time only when the run
\* had no finding; close_tickets of the port manager, called without a
\* closing time, closes at wall-clock time whatever findings the run had.
C14_ClosingTimeDefault ==
  /\ [](LatestFindingKept)
  /\ [][/\ Vuln_close_tickets => last'.ct = DefaultClosingTime(mgr, now)
        /\ Port_close_tickets(None) => last'.ct = Some(now)]_vars

\* the vulnerability manager ran close_tickets on day 1 with the time, day 0,
\* of the run's finding
C14_Witness ==
  /\ last.op = "vuln_close_tickets"
  /\ last.prev.op = "vuln_open_ticket"
  /\ last.pre_now = 1
  /\ last.pre_mgr.closing_time = Some(0)
  /\ last.ct = Some(0)

\* the port manager closed a ticket on day 1 at the wall-clock time, though
\* the run had a finding of day 0
C14_PortWallClock ==
  /\ last.op = "port_close_tickets"
  /\ last.arg # {}
  /\ last.pre_now = 1
  /\ last.pre_mgr.closing_time = Some(0)
  /\ last.ct = Some(1)

\* open_ticket met a finding later than those before it
C14_LaterFinding ==
  /\ last.op \in OpenOps
  /\ last.pre_mgr.closing_time = Some(0)
  /\ mgr.closing_time = Some(1)


\* ---------------------------------------------------------------------- C15
\* a scope dimension of manager m was configured as an empty set, or never
\* configured; the ports a caller gave the vulnerability manager are those of
\* m.ports other than port 0, which the setter adds
EmptyScope(m) ==
  \/ m.kind = "vuln" /\ (m.ips = {} \/ m.ports \ {0} = {} \/ m.source_ids = {})
  \/ m.kind = "port" /\ (m.ips = {} \/ m.ports.len = 0 \/ m.protocols = {})
  \/ m.kind = "host" /\ m.ips = {}

\* C15 as stated: with a scope dimension configured as an empty set,
\* close_tickets modifies no ticket and ready_to_clear_vuln_latest_flags of
\* the vulnerability manager is false.
C15_Original ==
  /\ (last.op \in CloseOps /\ EmptyScope(last.pre_mgr)) => tickets = last.pre
  /\ (mgr.kind = "vuln" /\ EmptyScope(mgr)) =>
       ~ ready_to_clear_vuln_latest_flags(mgr)

\* the vulnerability manager, configured with an empty port set, closed a
\* ticket of port 0
C15_PortZeroClosed ==
  /\ last.op = "vuln_close_tickets"
  /\ last.pre_mgr.ports = {0}
  /\ \E i \in last.arg : tickets[i].port = 0 /\ tickets[i].open = FALSE

\* the guard holds of a vulnerability manager configured with an empty port
\* set
C15_ReadyOnEmptyPorts ==
  /\ mgr.kind = "vuln"
  /\ mgr.ports = {0}
  /\ ready_to_clear_vuln_latest_flags(mgr)

\* the port manager, constructed with no protocol, closed a ticket
C15_NoProtocolClosed ==
  /\ last.op = "port_close_tickets"
  /\ last.pre_mgr.protocols = {}
  /\ \E i \in last.arg : tickets[i].open = FALSE

\* what does hold: close_tickets modifies no ticket when the ip set is empty,
\* when the vulnerability manager has no source id, when the port manager has
\* an empty port list, and the guard is false of a vulnerability manager whose
\* ips, source_ids or ports were never set
C15_EmptyIpsCloseNothing ==
  /\ (/\ last.op \in CloseOps
      /\ \/ last.pre_mgr.ips = {}
         \/ last.op = "vuln_close_tickets" /\ last.pre_mgr.source_ids = {}
         \/ last.op = "vuln_close_tickets" /\ last.pre_mgr.ports = {}
         \/ last.op = "port_close_tickets" /\ last.pre_mgr.ports.len = 0)
     => tickets = last.pre
  /\ (mgr.kind = "vuln" /\ (mgr.ips = {} \/ mgr.source_ids = {} \/ mgr.ports = {}))
       => ~ ready_to_clear_vuln_latest_flags(mgr)


\* ---------------------------------------------------------------------- C16
\* the call of last saved exactly one notification, that of its ticket
NotifiedOnce ==
  /\ Len(notifications) = last.pre_notes + 1
  /\ notifications[Len(notifications)] =
       [ticket_id |-> last.tid, ticket_owner |-> tickets[last.tid].owner,
        generated_for |-> << >>]

\* the call of last saved no notification
NotNotified == Len(notifications) = last.pre_notes

\* C16: an open_ticket call that creates a ticket saves exactly one
\* notification of that ticket, in the port manager always and in the
\* vulnerability manager if and only if the ticket's severity is greater than
\* 2 or its kev is true (else none); the verify and reopen paths of the port
\* manager save none.
C16_NewTicketNotification ==
  /\ (last.op = "port_open_ticket" /\ last.branch = "new") => NotifiedOnce
  /\ (last.op = "port_open_ticket" /\ last.branch # "new") => NotNotified
  /\ (last.op = "vuln_open_ticket" /\ last.branch = "new") =>
       IF \/ Val(tickets[last.tid].details.severity) > 2
          \/ Val(tickets[last.tid].details.kev) = TRUE
       THEN NotifiedOnce
       ELSE NotNotified

\* the vulnerability manager created a ticket of severity 3 that is not a
\* known exploited vulnerability and saved its notification
C16_Witness ==
  /\ last.op = "vuln_open_ticket"
  /\ last.branch = "new"
  /\ Val(tickets[last.tid].details.severity) = 3
  /\ Val(tickets[last.tid].details.kev) = FALSE
  /\ NotifiedOnce

\* the vulnerability manager created a ticket of low severity, no notification
C16_LowSeverity ==
  /\ last.op = "vuln_open_ticket"
  /\ last.branch = "new"
  /\ Val(tickets[last.tid].details.severity) <= 2
  /\ NotNotified

\* the vulnerability manager created a ticket of low severity that is a known
\* exploited vulnerability and saved its notification
C16_KnownExploited ==
  /\ last.op = "vuln_open_ticket"
  /\ last.branch = "new"
  /\ Val(tickets[last.tid].details.severity) <= 2
  /\ Val(tickets[last.tid].details.kev) = TRUE
  /\ NotifiedOnce

\* the port manager created a ticket after another one: two notifications
C16_PortNew ==
  /\ last.op = "port_open_ticket"
  /\ last.branch = "new"
  /\ Len(notifications) = 2

\* the port manager verified a ticket
C16_PortVerify == last.op = "port_open_ticket" /\ last.branch = "verify"

\* the port manager reopened a ticket
C16_PortReopen == last.op = "port_open_ticket" /\ last.branch = "reopen"


\* ---------------------------------------------------------------------- C17
\* the vulnerability manager verified an open ticket whose false positive had
\* expired, with a finding whose details differ from the stored ones
C17_ExpiredAndChanged ==
  /\ last.op = "vuln_open_ticket"
  /\ last.branch = "verify"
  /\ FalsePositiveExpired(last.tid, last.arg.time)
  /\ tickets[last.tid].details # last.pre[last.tid].details

\* C17 as stated: the appended events are CHANGED "False positive expired",
\* then CHANGED "details changed", then VERIFIED.
C17_Original ==
  C17_ExpiredAndChanged =>
    /\ Len(NewEvents(last.tid)) = 3
    /\ IsExpiryEvent(NewEvents(last.tid)[1], last.arg.time)
    /\ NewEvents(last.tid)[2].action = CHANGED
    /\ NewEvents(last.tid)[2].reason = "details changed"
    /\ NewEvents(last.tid)[3].action = VERIFIED

\* C17 (amended): the details delta is evaluated before the false-positive
\* expiration: the appended events are CHANGED "details changed", then CHANGED
\* "False positive expired", then VERIFIED, and the ticket is no false
\* positive any more.
C17_VerifyEventOrder ==
  C17_ExpiredAndChanged =>
    /\ Len(NewEvents(last.tid)) = 3
    /\ NewEvents(last.tid)[1].action = CHANGED
    /\ NewEvents(last.tid)[1].reason = "details changed"
    /\ NewEvents(last.tid)[1].delta # << >>
    /\ IsExpiryEvent(NewEvents(last.tid)[2], last.arg.time)
    /\ NewEvents(last.tid)[3].action = VERIFIED
    /\ tickets[last.tid].false_positive = FALSE

\* open_ticket verified an expired false positive with changed details
C17_Witness ==
  /\ C17_ExpiredAndChanged
  /\ Len(NewEvents(last.tid)) = 3


\* ---------------------------------------------------------------------- C18
\* port manager m saw no open port of ip
NoOpenPort(ip, m) ==
  \/ ip \notin DOMAIN m.seen_ip_port
  \/ m.seen_ip_port[ip] = {}

\* the full port space was scanned and port manager m saw no open port of ip
FullSweepNoOpenPort(ip, m) ==
  m.ports.len = MAX_PORTS_COUNT /\ NoOpenPort(ip, m)

\* the Scope of the claim: the key of ticket t lies inside the Scope of the
\* manager m; for the port manager also a port-0 ticket of a host of the scan
\* without an open port, when the full port space was scanned
C18_InScope(t, m) ==
  \/ m.kind = "vuln" /\ InVulnScope(t, m)
  \/ m.kind = "host" /\ t.ip \in m.ips
  \/ m.kind = "port" /\ InPortScope(t, m)
  \/ m.kind = "port" /\ t.port = 0 /\ t.ip \in m.ips
       /\ FullSweepNoOpenPort(t.ip, m)

\* C18 as stated: close_tickets changes no ticket outside the Scope, and the
\* port manager never changes a port-0 ticket of a host with an open port.
C18_Original ==
  last.op \in CloseOps =>
    /\ Len(tickets) = Len(last.pre)
    /\ \A i \in DOMAIN last.pre :
         tickets[i] # last.pre[i] =>
           /\ C18_InScope(last.pre[i], last.pre_mgr)
           /\ (last.op = "port_close_tickets" /\ last.pre[i].port = 0) =>
                NoOpenPort(last.pre[i].ip, last.pre_mgr)

\* the tickets the port manager m may change: the open tickets of the
\* scanned ips, either of a host without any port marked open when the full
\* port space was scanned (whatever their port, protocol and source), or of a
\* scanned protocol, on a port not marked open that is a scanned port (any
\* port but 0 when the full port space was scanned)
C18_PortFrame(t, m) ==
  /\ t.open = TRUE
  /\ t.ip \in m.ips
  /\ \/ m.ports.len = MAX_PORTS_COUNT /\ t.ip \notin DOMAIN m.seen_ip_port
     \/ /\ t.protocol \in m.protocols
        /\ ~ SeenOpen(t, m)
        /\ IF m.ports.len = MAX_PORTS_COUNT THEN t.port # 0
           ELSE t.port \in m.ports.elems

\* C18 (amended): close_tickets changes only open tickets; the vulnerability
\* manager only tickets inside its Scope (ip, port, source id, source), the
\* host manager only tickets of scanned ips not marked up, the port manager
\* only the tickets of C18_PortFrame. When the full port space was scanned the
\* port manager changes no port-0 ticket of a host with a port marked open.
C18_ScopeFrame ==
  last.op \in CloseOps =>
    /\ Len(tickets) = Len(last.pre)
    /\ \A i \in DOMAIN last.pre :
         tickets[i] # last.pre[i] =>
           /\ last.pre[i].open = TRUE
           /\ last.op = "vuln_close_tickets" =>
                InVulnScope(last.pre[i], last.pre_mgr)
           /\ last.op = "ip_close_tickets" =>
                last.pre[i].ip \in last.pre_mgr.ips \ last.pre_mgr.seen_ips
           /\ last.op = "port_close_tickets" =>
                /\ C18_PortFrame(last.pre[i], last.pre_mgr)
                /\ (/\ last.pre[i].port = 0
                    /\ last.pre_mgr.ports.len = MAX_PORTS_COUNT) =>
                     last.pre[i].ip \notin DOMAIN last.pre_mgr.seen_ip_port

\* the port manager, after a scan of the full port space for tcp that found
\* no open port, closed a udp ticket and left a ticket of another ip alone
C18_Witness ==
  /\ last.op = "port_close_tickets"
  /\ "udp" \notin last.pre_mgr.protocols
  /\ \E i \in DOMAIN last.pre :
       /\ last.pre[i].protocol = "udp"
       /\ tickets[i] # last.pre[i]
  /\ \E i \in DOMAIN last.pre :
       /\ last.pre[i].open = TRUE
       /\ last.pre[i].ip \notin last.pre_mgr.ips
       /\ tickets[i] = last.pre[i]

\* the port manager changed a port-0 ticket of a host with an open port: port
\* 0 was in the list of scanned ports
C18_PortZeroScanned ==
  /\ last.op = "port_close_tickets"
  /\ \E i \in DOMAIN last.pre :
       /\ last.pre[i].port = 0
       /\ tickets[i] # last.pre[i]
       /\ last.pre[i].ip \in DOMAIN last.pre_mgr.seen_ip_port
       /\ last.pre_mgr.seen_ip_port[last.pre[i].ip] # {}

\* the port manager changed a ticket of the vulnerability scanner
C18_OtherSource ==
  /\ last.op = "port_close_tickets"
  /\ \E i \in DOMAIN last.pre :
       last.pre[i].source = "nessus" /\ tickets[i] # last.pre[i]


\* ---------------------------------------------------------------------- C19
\* ticket i was open, of a scanned ip that the run never marked up
HostDown(i) ==
  /\ last.pre[i].open = TRUE
  /\ last.pre[i].ip \in last.pre_mgr.ips
  /\ last.pre[i].ip \notin last.pre_mgr.seen_ips

\* ticket i was a false positive that had not expired at the closing time
UnexpiredFalsePositive(i) ==
  /\ last.pre[i].false_positive = TRUE
  /\ ~ (fp_expiration_date(last.pre[i]) < Val(last.ct))

\* C19: after close_tickets of the host manager every ticket that was open, of
\* a scanned ip never passed to ip_up, is closed with a CLOSED "host down"
\* event and time_closed equal to the closing time, or, being an unexpired
\* false positive, is still open with one more event, UNVERIFIED "host down";
\* every other ticket is unchanged and the store has no new ticket.
C19_HostReconciliation ==
  last.op = "ip_close_tickets" =>
    /\ Len(tickets) = Len(last.pre)
    /\ \A i \in DOMAIN last.pre :
         IF HostDown(i)
         THEN LET e == tickets[i].events[Len(tickets[i].events)] IN
              /\ e.reason = "host down"
              /\ e.time = Val(last.ct)
              /\ e.reference = None
              /\ IF UnexpiredFalsePositive(i)
                 THEN /\ tickets[i] = [last.pre[i] EXCEPT !.events = Append(@, e)]
                      /\ e.action = UNVERIFIED
                 ELSE /\ tickets[i].open = FALSE
                      /\ tickets[i].time_closed = last.ct
                      /\ e.action = CLOSED
         ELSE tickets[i] = last.pre[i]

\* the host manager closed the tickets of a host that was down and left an
\* open ticket of another host alone
C19_Witness ==
  /\ last.op = "ip_close_tickets"
  /\ \E i \in DOMAIN last.pre :
       HostDown(i) /\ ~ UnexpiredFalsePositive(i) /\ tickets[i].open = FALSE
  /\ \E i \in DOMAIN last.pre :
       last.pre[i].open = TRUE /\ ~ HostDown(i)

\* the host manager logged UNVERIFIED on a false positive of a host that was
\* down
C19_Unverified ==
  /\ last.op = "ip_close_tickets"
  /\ \E i \in DOMAIN last.pre : HostDown(i) /\ UnexpiredFalsePositive(i)

\* the host manager left the open tickets of a host that was marked up alone
C19_MarkedUp ==
  /\ last.op = "ip_close_tickets"
  /\ \E i \in DOMAIN last.pre :
       /\ last.pre[i].open = TRUE
       /\ last.pre[i].ip \in last.pre_mgr.ips \cap last.pre_mgr.seen_ips


\* ---------------------------------------------------------------------- C20
ClearOps == {"vuln_clear_vuln_latest_flags", "port_clear_vuln_latest_flags",
             "ip_clear_vuln_latest_flags"}

\* the key of scan record d lies inside the Scope of manager m
ScanInScope(d, m) ==
  \/ /\ m.kind = "vuln"
     /\ d.ip \in m.ips
     /\ d.port \in m.ports
     /\ d.plugin_id \in m.source_ids
     /\ d.source = m.source
  \/ m.kind = "port" /\ d.ip \in m.ips /\ d.port \in m.ports.elems
  \/ m.kind = "host" /\ d.ip \in m.ips

\* the run of manager m confirmed scan record d present: its finding was passed
\* to open_ticket (vulnerability manager), its port was marked open (port
\* manager), its host was marked up (host manager)
ConfirmedPresent(d, m) ==
  \/ /\ m.kind = "vuln"
     /\ \E tid \in last.pre_touched :
          /\ last.pre[tid].ip = d.ip
          /\ last.pre[tid].port = d.port
          /\ last.pre[tid].source_id = d.plugin_id
          /\ last.pre[tid].source = d.source
  \/ /\ m.kind = "port"
     /\ d.ip \in DOMAIN m.seen_ip_port
     /\ d.port \in m.seen_ip_port[d.ip]
  \/ m.kind = "host" /\ d.ip \in m.seen_ips

\* the call of last cleared the latest flag of exactly the records of S, and
\* changed nothing else of the records, and no ticket
ClearedExactly(S) ==
  /\ tickets = last.pre
  /\ vulnscans = [i \in DOMAIN last.pre_scans |->
                    IF i \in S THEN [last.pre_scans[i] EXCEPT !.latest = FALSE]
                    ELSE last.pre_scans[i]]

\* C20 as stated: clear_vuln_latest_flags clears the latest flag of exactly
\* the latest records inside the Scope that the run did not confirm present,
\* and modifies no ticket.
C20_Original ==
  last.op \in ClearOps =>
    ClearedExactly({i \in DOMAIN last.pre_scans :
                      /\ last.pre_scans[i].latest = TRUE
                      /\ ScanInScope(last.pre_scans[i], last.pre_mgr)
                      /\ ~ ConfirmedPresent(last.pre_scans[i], last.pre_mgr)})

\* C20 (amended): clear_vuln_latest_flags modifies no ticket and clears the
\* latest flag of exactly these latest records: the vulnerability manager,
\* every record inside its Scope (ip, port, source id, source), confirmed
\* present or not; the port manager, every record of a scanned ip whose port
\* was not marked open on that ip, whatever the scanned port list and the
\* source; the host manager, every record of a scanned ip not marked up.
C20_LatestFlags ==
  last.op \in ClearOps =>
    ClearedExactly({i \in DOMAIN last.pre_scans :
      LET d == last.pre_scans[i]
          m == last.pre_mgr
      IN /\ d.latest = TRUE
         /\ d.ip \in m.ips
         /\ CASE m.kind = "vuln" -> ScanInScope(d, m)
              [] m.kind = "port" -> ~ ConfirmedPresent(d, m)
              [] m.kind = "host" -> ~ ConfirmedPresent(d, m)})

\* the port manager cleared the flag of a record of a port outside the list of
\* scanned ports and kept that of the port marked open
C20_Witness ==
  /\ last.op = "port_clear_vuln_latest_flags"
  /\ \E i \in last.arg :
       /\ ~ ScanInScope(last.pre_scans[i], last.pre_mgr)
       /\ vulnscans[i].latest = FALSE
  /\ \E i \in DOMAIN last.pre_scans :
       /\ ConfirmedPresent(last.pre_scans[i], last.pre_mgr)
       /\ vulnscans[i].latest = TRUE

\* the vulnerability manager cleared the flag of a record whose finding the
\* run had passed to open_ticket, and kept the flags outside its Scope
C20_VulnConfirmedCleared ==
  /\ last.op = "vuln_clear_vuln_latest_flags"
  /\ \E i \in last.arg : ConfirmedPresent(last.pre_scans[i], last.pre_mgr)
  /\ \E i \in DOMAIN last.pre_scans :
       /\ last.pre_scans[i].latest = TRUE
       /\ last.pre_scans[i].ip \in last.pre_mgr.ips
       /\ vulnscans[i].latest = TRUE

\* the host manager cleared the flags of a host that was down
C20_HostDown ==
  /\ last.op = "ip_clear_vuln_latest_flags"
  /\ last.arg # {}
  /\ \E i \in DOMAIN last.pre_scans : vulnscans[i].latest = TRUE

\* the host manager kept the flags of a host that was marked up
C20_HostUp ==
  /\ last.op = "ip_clear_vuln_latest_flags"
  /\ last.pre_mgr.seen_ips # {}
  /\ last.pre_mgr.ips # {}
  /\ last.arg = {}


\* ---------------------------------------------------------------------- C21
\* ticket i was a candidate of the close_tickets call of last and is still a
\* false positive after it
StillFalsePositive(i) ==
  /\ i \in last.arg
  /\ last.pre[i].false_positive = TRUE
  /\ tickets[i].false_positive = TRUE

\* C21 as stated: a candidate of close_tickets that is still a false positive
\* gains exactly one UNVERIFIED event in the call and stays open, in every
\* manager and every branch.
C21_Original ==
  last.op \in CloseOps =>
    \A i \in DOMAIN last.pre :
      StillFalsePositive(i) =>
        /\ tickets[i].open = TRUE
        /\ Len(NewEvents(i)) = 1
        /\ NewEvents(i)[1].action = UNVERIFIED

\* the port manager, after a scan of the full port space that found no open
\* port of a host, logged UNVERIFIED twice on a false positive of that host
C21_DoubleUnverified ==
  /\ last.op = "port_close_tickets"
  /\ last.pre_mgr.ports.len = MAX_PORTS_COUNT
  /\ \E i \in DOMAIN last.pre :
       /\ StillFalsePositive(i)
       /\ last.pre[i].ip \notin DOMAIN last.pre_mgr.seen_ip_port
       /\ Len(NewEvents(i)) = 2
       /\ NewEvents(i)[1].action = UNVERIFIED
       /\ NewEvents(i)[2].action = UNVERIFIED

\* what does hold: the ticket stays open and gains UNVERIFIED events only, one
\* in the vulnerability manager, the host manager and the port manager's
\* other branches, two in the full-sweep branch when the ticket is of a
\* scanned protocol and not on port 0
C21_UnverifiedCount ==
  last.op \in CloseOps =>
    \A i \in DOMAIN last.pre :
      StillFalsePositive(i) =>
        /\ tickets[i].open = TRUE
        /\ \A n \in DOMAIN NewEvents(i) : NewEvents(i)[n].action = UNVERIFIED
        /\ Len(NewEvents(i)) =
             IF /\ last.op = "port_close_tickets"
                /\ last.pre_mgr.ports.len = MAX_PORTS_COUNT
                /\ last.pre[i].ip \notin DOMAIN last.pre_mgr.seen_ip_port
                /\ last.pre[i].port # 0
                /\ last.pre[i].protocol \in last.pre_mgr.protocols
             THEN 2 ELSE 1


\* ---------------------------------------------------------------------- C22
\* the severity of a CVSS score (in tenths) of a version, as the claim
\* states it
C22_Severity(version, score) ==
  CASE version = "2" /\ score = 100 -> 4
    [] version = "3" /\ score >= 90 -> 4
    [] version = "2" /\ score >= 70 /\ score < 100 -> 3
    [] version = "3" /\ score >= 70 /\ score < 90 -> 3
    [] score >= 40 /\ score < 70 -> 2
    [] score < 40 -> 1

\* C22: in every stored vulnerability ticket whose score source is not "nvd",
\* the severity is the one the thresholds give for the CVSS version and score
\* of the ticket, whatever severity the finding reported, and lies in 1..4.
C22_SeverityNormalisation ==
  \A i \in DOMAIN tickets :
    (tickets[i].source = "nessus"
       /\ tickets[i].details.score_source # Some("nvd")) =>
      /\ tickets[i].details.severity =
           Some(C22_Severity(Val(tickets[i].details.cvss_version),
                             Val(tickets[i].details.cvss_base_score)))
      /\ Val(tickets[i].details.severity) \in 1 .. 4

\* a finding of version 3 and score 9.0 that reported severity 0 is stored
\* with severity 4
C22_Witness ==
  /\ last.op = "vuln_open_ticket"
  /\ last.arg.severity = 0
  /\ tickets[last.tid].details.score_source = Some("nessus")
  /\ tickets[last.tid].details.cvss_version = Some("3")
  /\ tickets[last.tid].details.cvss_base_score = Some(90)
  /\ tickets[last.tid].details.severity = Some(4)

\* a finding of version 2 and score 0.0 that reported severity 4 is stored
\* with severity 1
C22_ScoreZero ==
  /\ last.op = "vuln_open_ticket"
  /\ last.arg.severity = 4
  /\ tickets[last.tid].details.cvss_version = Some("2")
  /\ tickets[last.tid].details.cvss_base_score = Some(0)
  /\ tickets[last.tid].details.severity = Some(1)

\* a finding with a CVE the NVD knows keeps the severity of the NVD
C22_Nvd ==
  /\ last.op = "vuln_open_ticket"
  /\ last.branch # "KeyError"
  /\ tickets[last.tid].details.score_source = Some("nvd")
  /\ last.arg.cvss_base_score = 0
  /\ tickets[last.tid].details.severity = Some(4)

\* open_ticket raised KeyError on a finding without cvss_base_score and left
\* the store as it was
C22_Raised ==
  /\ last.op = "vuln_open_ticket"
  /\ last.branch = "KeyError"
  /\ tickets = last.pre
  /\ mgr.closing_time = Some(last.arg.time)


\* ---------------------------------------------------------------------- C23
\* C23: in every stored ticket, open is true if and only if time_closed is
\* null.
C23_OpenAgreesWithTimeClosed ==
  \A i \in DOMAIN tickets :
    (tickets[i].open = TRUE) <=> (tickets[i].time_closed = None)

\* open_ticket reopened a ticket that had been closed
C23_Witness ==
  /\ last.op \in OpenOps
  /\ last.branch = "reopen"
  /\ last.pre[last.tid].open = FALSE
  /\ last.pre[last.tid].time_closed # None
  /\ tickets[last.tid].open = TRUE

\* close_tickets closed a ticket
C23_Closed ==
  /\ last.op \in CloseOps
  /\ \E i \in last.arg : tickets[i].open = FALSE /\ last.pre[i].open = TRUE


\* ---------------------------------------------------------------------- C24
\* the events that open or close a ticket
Lifecycle == {OPENED, REOPENED, CLOSED}

\* the action of the latest OPENED, REOPENED or CLOSED event among the first
\* n events of a log ("none" when there is none)
LatestLifecycle(events, n) ==
  LET P == {k \in 1 .. n : events[k].action \in Lifecycle}
  IN IF P = {} THEN "none"
     ELSE events[CHOOSE k \in P : \A j \in P : j <= k].action

\* the log of a stored ticket is well formed
WellFormed(t) ==
  /\ t.events # << >>
  /\ t.events[1].action = OPENED
  /\ \A n \in DOMAIN t.events :
       /\ n > 1 => t.events[n].action # OPENED
       /\ (n > 1 /\ t.events[n].action = REOPENED) =>
            LatestLifecycle(t.events, n - 1) = CLOSED
       /\ (n > 1 /\ t.events[n].action \in {CLOSED, VERIFIED, UNVERIFIED}) =>
            LatestLifecycle(t.events, n - 1) \in {OPENED, REOPENED}
  /\ (t.open = FALSE) <=> (LatestLifecycle(t.events, Len(t.events)) = CLOSED)

\* C24: in every stored ticket the first event is OPENED and no later one is;
\* REOPENED follows a latest OPENED/REOPENED/CLOSED event that is CLOSED;
\* CLOSED, VERIFIED and UNVERIFIED follow one that is OPENED or REOPENED; and
\* open is false exactly when the latest such event is CLOSED.
C24_EventLogWellFormed == \A i \in DOMAIN tickets : WellFormed(tickets[i])

\* open_ticket reopened a ticket that was opened and closed
C24_Witness ==
  /\ last.op \in OpenOps
  /\ last.branch = "reopen"
  /\ LET e == tickets[last.tid].events
     IN /\ Len(e) >= 3
        /\ e[Len(e)].action = REOPENED
        /\ LatestLifecycle(e, Len(e) - 1) = CLOSED

\* close_tickets logged UNVERIFIED on an open ticket
C24_Unverified ==
  /\ last.op \in CloseOps
  /\ \E i \in last.arg :
       tickets[i].events[Len(tickets[i].events)].action = UNVERIFIED


\* ---------------------------------------------------------------------- C25
\* C25 as stated: every stored ticket of the unknown owner has open=false.
C25_Original ==
  \A i \in DOMAIN tickets :
    tickets[i].owner = UNKNOWN_OWNER => tickets[i].open = FALSE

\* open_ticket met a finding for the key of a ticket of the unknown owner that
\* was closed when it was created, and reopened it
C25_ReopenedUnowned ==
  /\ last.op \in OpenOps
  /\ last.branch = "reopen"
  /\ last.arg.owner = UNKNOWN_OWNER
  /\ last.pre[last.tid].owner = UNKNOWN_OWNER
  /\ last.pre[last.tid].open = FALSE
  /\ tickets[last.tid].owner = UNKNOWN_OWNER
  /\ tickets[last.tid].open = TRUE

\* what does hold: a ticket of the unknown owner is closed when it is created,
\* and is open only after open_ticket reopened it
C25_OpenOnlyReopened ==
  \A i \in DOMAIN tickets :
    (tickets[i].owner = UNKNOWN_OWNER /\ tickets[i].open = TRUE) =>
      LatestLifecycle(tickets[i].events, Len(tickets[i].events)) = REOPENED


\* ---------------------------------------------------------------------- C26
\* the calls of the port manager that the claim says leave the Seen set alone
C26_Ops == {"port_close_tickets", "port_clear_vuln_latest_flags"}

\* the ips that a full-sweep close_tickets of port manager m treats as hosts
\* with an open port
HostsWithOpenPort(m) == DOMAIN m.seen_ip_port

\* C26 as stated: close_tickets and clear_vuln_latest_flags of the port
\* manager leave the Seen set unchanged, and with it the set of hosts a
\* full-sweep close_tickets treats as having an open port.
C26_Original ==
  last.op \in C26_Ops =>
    /\ mgr.seen_ip_port = last.pre_mgr.seen_ip_port
    /\ HostsWithOpenPort(mgr) = HostsWithOpenPort(last.pre_mgr)

\* close_tickets or clear_vuln_latest_flags recorded, with no port, a host of
\* which no port was marked open
C26_KeyInserted ==
  /\ last.op \in C26_Ops
  /\ \E ip \in HostsWithOpenPort(mgr) \ HostsWithOpenPort(last.pre_mgr) :
       mgr.seen_ip_port[ip] = {}

\* the same, by close_tickets
C26_InsertedByClose == C26_KeyInserted /\ last.op = "port_close_tickets"

\* the same, by clear_vuln_latest_flags
C26_InsertedByClear ==
  C26_KeyInserted /\ last.op = "port_clear_vuln_latest_flags"

\* a full-sweep close_tickets, called after clear_vuln_latest_flags, left
\* open a port-0 ticket, no false positive, of a scanned host of which no
\* port was marked open
C26_SweepSkipped ==
  /\ last.op = "port_close_tickets"
  /\ last.prev.op = "port_clear_vuln_latest_flags"
  /\ last.pre_mgr.ports.len = MAX_PORTS_COUNT
  /\ \E i \in DOMAIN tickets :
       /\ tickets[i].port = 0
       /\ tickets[i].open = TRUE
       /\ tickets[i].false_positive = FALSE
       /\ tickets[i].ip \in last.pre_mgr.ips
       /\ NoOpenPort(tickets[i].ip, last.pre_mgr)

\* what does hold: the two calls never change the ports recorded for a host,
\* they only add hosts with an empty set of ports; of the other calls only
\* port_open changes the Seen set
C26_SeenOnlyGrowsEmpty ==
  last.op \in C26_Ops =>
    /\ HostsWithOpenPort(last.pre_mgr) \subseteq HostsWithOpenPort(mgr)
    /\ \A ip \in HostsWithOpenPort(mgr) :
         mgr.seen_ip_port[ip] =
           IF ip \in HostsWithOpenPort(last.pre_mgr)
           THEN last.pre_mgr.seen_ip_port[ip] ELSE {}

====
